---- MODULE Spec2Model ----
(***************************************************************************)
(* A model of the firefighter-reports pipeline: run_pipeline (runner.py),  *)
(* the Slack gateway (slack_service.py), the summarizer (summarizer.py)    *)
(* and the Redis cache adapter (cache.py).                                 *)
(*                                                                         *)
(* Strings are modelled as sequences of tokens (a token stands for a run   *)
(* of characters, its own leading blank included), JSON objects as records *)
(* tagged with kind = "dict", other JSON values by their own kind.  A      *)
(* Slack timestamp "1699900000.000100" is the record of its two digit      *)
(* runs, whole and frac.                                                   *)
(***************************************************************************)
EXTENDS Integers, Sequences, FiniteSets, TLC

\* The longest list of matches slack.search_messages hands to run_pipeline.
MaxMatches == 2

(***************************************************************************)
(* Text                                                                    *)
(***************************************************************************)

\* str.lower() on one token.
LowerTok(t) ==
    CASE t = "No" -> "no"
      [] t = "NO" -> "no"
      [] t = "Thread" -> "thread"
      [] t = "Messages" -> "messages"
      [] t = "Provided" -> "provided"
      [] t = "Placeholder/Title" -> "placeholder/title"
      [] t = "Only" -> "only"
      [] t = "Sorry," -> "sorry,"
      [] t = "Db" -> "db"
      [] t = "Help" -> "help"
      [] t = "Firefighter" -> "firefighter"
      [] t = "Slackbot" -> "slackbot"
      [] t = "SLACKBOT" -> "slackbot"
      [] OTHER -> t

\* str.lower()
Lower(text) == [i \in DOMAIN text |-> LowerTok(text[i])]

\* pattern in text
Contains(pattern, text) ==
    \E i \in 0..(Len(text) - Len(pattern)) :
        SubSeq(text, i + 1, i + Len(pattern)) = pattern

(***************************************************************************)
(* Slack blocks                                                            *)
(***************************************************************************)

TextObj(type, text) == [kind |-> "dict", type |-> type, text |-> text]

HeaderBlock(text) ==
    [kind |-> "dict", type |-> "header", text |-> TextObj("plain_text", text)]

SectionBlock(text) ==
    [kind |-> "dict", type |-> "section", text |-> TextObj("mrkdwn", text)]

ContextBlock(elements) ==
    [kind |-> "dict", type |-> "context", elements |-> elements]

DividerBlock == [kind |-> "dict", type |-> "divider"]

\* runner.py 165-168: the "View thread" link block.
ViewThreadBlock(permalink) ==
    ContextBlock(<< TextObj("mrkdwn", <<"<", permalink, "|View thread>">>) >>)

\* runner.py 172-180: the fixed block of an empty digest.
NoThreadsBlock ==
    SectionBlock(<<"No", "firefighter", "threads", "found", "in", "the",
                   "selected", "window.">>)

\* runner.py 115-120
placeholder_patterns ==
    << <<"placeholder/title", "only">>,
       <<"placeholder/title">>,
       <<"no", "thread", "messages", "provided", "beyond", "the", "title">>,
       <<"no", "thread", "messages", "provided">> >>

\* dict.get(key) on a JSON object: the value, or None.
None == [kind |-> "none"]
\* A JSON array.
JList(items) == [kind |-> "list", items |-> items]
Get(d, key) == IF key \in DOMAIN d THEN d[key] ELSE None

\* runner.py 133-135: the text one element of a context block adds.
ElementText(element) ==
    IF Get(element, "type") \in {"mrkdwn", "plain_text"}
    THEN (IF "text" \in DOMAIN element THEN Lower(element.text) ELSE <<>>)
    ELSE <<>>

RECURSIVE ElementsText(_)
ElementsText(elements) ==
    IF elements = <<>> THEN <<>>
    ELSE ElementText(Head(elements)) \o ElementsText(Tail(elements))

\* runner.py 124-135: the text one block adds to all_text.
BlockText(block) ==
    IF Get(block, "type") \in {"section", "header"} /\ "text" \in DOMAIN block
    THEN (IF block.text.kind = "dict"
          THEN (IF "text" \in DOMAIN block.text THEN Lower(block.text.text) ELSE <<>>)
          ELSE <<>>)
    ELSE IF Get(block, "type") = "context" /\ "elements" \in DOMAIN block
    THEN ElementsText(block.elements)
    ELSE <<>>

\* runner.py 122-135: all_text.
RECURSIVE AllText(_)
AllText(blocks) ==
    IF blocks = <<>> THEN <<>>
    ELSE BlockText(Head(blocks)) \o AllText(Tail(blocks))

\* runner.py 123-135: block.get and element.get raise AttributeError on a
\* value that is not a JSON object.
PlaceholderCheckRaises(blocks) ==
    \E i \in DOMAIN blocks.items :
        \/ blocks.items[i].kind # "dict"
        \/ /\ Get(blocks.items[i], "type") = "context"
           /\ "elements" \in DOMAIN blocks.items[i]
           /\ \E j \in DOMAIN blocks.items[i].elements :
                  blocks.items[i].elements[j].kind # "dict"

\* is_placeholder_thread matching the whole text instead of a part of it.
is_placeholder_whole_text(blocks) ==
    \E p \in DOMAIN placeholder_patterns :
        placeholder_patterns[p] = AllText(blocks.items)

\* runner.py 113-141
is_placeholder_thread(blocks) ==
    \E p \in DOMAIN placeholder_patterns :
        Contains(placeholder_patterns[p], AllText(blocks.items))

(***************************************************************************)
(* Timestamps                                                              *)
(***************************************************************************)

Ts(whole, frac) == [kind |-> "str", whole |-> whole, frac |-> frac]

\* The threads of the workspace: one older than the run window, two inside.
TsOld == Ts(<<1,6,9,9,0,0,0,0,0,0>>, <<0,0,0,0,0,0>>)
TsA == Ts(<<1,6,9,9,9,0,0,0,0,0>>, <<0,0,0,1,0,0>>)
TsB == Ts(<<1,6,9,9,9,5,0,0,0,0>>, <<0,0,0,0,0,0>>)
\* A reply posted inside the window.
TsReply == Ts(<<1,6,9,9,9,6,0,0,0,0>>, <<0,0,0,0,0,0>>)

\* datetime.now() of the runs, in seconds and microseconds.
NowSecs == 1700000000
Now == [secs |-> NowSecs, micros |-> 0]

SecondsPerDay == 86400

\* int("...") of a run of digits.
RECURSIVE DigitsVal(_)
DigitsVal(digits) ==
    IF digits = <<>> THEN 0
    ELSE 10 * DigitsVal(SubSeq(digits, 1, Len(digits) - 1)) + digits[Len(digits)]

\* The first six digits of a fraction, as microseconds.
Micros(frac) ==
    DigitsVal([i \in 1..6 |-> IF i <= Len(frac) THEN frac[i] ELSE 0])

\* slack_service.py 283-285
ts_to_datetime(ts) == [secs |-> DigitsVal(ts.whole), micros |-> Micros(ts.frac)]

\* datetime.__lt__
Before(d1, d2) ==
    \/ d1.secs < d2.secs
    \/ d1.secs = d2.secs /\ d1.micros < d2.micros

\* datetime - timedelta(days=n)
MinusDays(d, n) == [secs |-> d.secs - n * SecondsPerDay, micros |-> d.micros]

\* dt.strftime("%Y-%m-%d"), for the days of the model's timestamps.
strftime(dt) ==
    LET day == dt.secs \div SecondsPerDay
    IN  CASE day = 19664 -> "2023-11-03"
          [] day = 19674 -> "2023-11-13"
          [] day = 19675 -> "2023-11-14"
          [] day = 0 -> "1970-01-01"
          [] OTHER -> "another-day"

(***************************************************************************)
(* config.py                                                               *)
(***************************************************************************)

\* config.py 21
lookback_days == 7

\* config.py 17
slack_channel_id == "CDIGEST"

(***************************************************************************)
(* cache.py                                                                *)
(***************************************************************************)

\* A key the store does not hold.
NoEntry == [kind |-> "absent"]
\* A stored text that is not a JSON document.
Garbage == [kind |-> "text", valid |-> FALSE]

\* json.dumps
json_dumps(value) == [kind |-> "text", valid |-> TRUE, value |-> value]

\* get_json handing out the stored text when it is not JSON.
get_json_as_stored(store, key) ==
    LET value == store[key]
    IN  IF value.kind = "absent" THEN None
        ELSE IF value.valid THEN value.value
        ELSE [kind |-> "str", val |-> "{oops"]

\* cache.py 11-18
get_json(store, key) ==
    LET value == store[key]
    IN  IF value.kind = "absent" THEN None
        ELSE IF value.valid THEN value.value
        ELSE None

\* cache.py 20-21
set_json(store, key, value) == [store EXCEPT ![key] = json_dumps(value)]

\* Python's truth value of what get_json returns.
Truthy(v) ==
    /\ v.kind # "none"
    /\ ~(v.kind = "list" /\ v.items = <<>>)

(***************************************************************************)
(* summarizer.py                                                           *)
(***************************************************************************)

\* A completion of the model: the text of a JSON document, or prose, with
\* or without a code fence around it.
Completion(fenced, doc, text) ==
    [kind |-> "str", fenced |-> fenced, doc |-> doc, text |-> text]
Prose == [kind |-> "invalid"]
Number == [kind |-> "number"]

\* summarizer.py 87-97
strip_code_fences(raw) == [raw EXCEPT !.fenced = FALSE]

\* raw.strip(): the completion as it came, fence included.
RawStrip(raw) ==
    IF raw.fenced THEN <<"<fence>">> \o raw.text \o <<"<fence>">> ELSE raw.text

\* summarizer.py 99-104: json.loads fails on prose and on a fence.
parse_blocks(raw) ==
    LET text == strip_code_fences(raw)
    IN  IF text.fenced \/ text.doc.kind = "invalid" THEN None ELSE text.doc

\* summarizer.py 79-85
summarize(timestamp, raw) ==
    LET parsed == parse_blocks(raw)
    IN  IF parsed.kind = "list" THEN parsed
        ELSE IF parsed.kind = "dict" THEN JList(<<parsed>>)
        ELSE JList(<< HeaderBlock(<<"Firefighter", timestamp>>),
                      SectionBlock(RawStrip(raw)) >>)

SummaryBlocks == <<HeaderBlock(<<"Db", "down">>), SectionBlock(<<"fixed">>)>>

\* What chain.invoke may return.
Completions ==
    { Completion(FALSE, JList(SummaryBlocks), <<"[...]">>),
      Completion(TRUE, JList(SummaryBlocks), <<"[...]">>),
      Completion(FALSE,
                 JList(<<HeaderBlock(<<"Help">>),
                         SectionBlock(<<"No", "Thread", "Messages", "provided">>)>>),
                 <<"[...]">>),
      Completion(FALSE,
                 JList(<<ContextBlock(<<TextObj("plain_text",
                                                <<"placeholder/title", "only">>)>>)>>),
                 <<"[...]">>),
      Completion(FALSE, JList(<<>>), <<"[]">>),
      Completion(FALSE, SectionBlock(<<"fixed">>), <<"{...}">>),
      Completion(FALSE, Prose, <<"Sorry,", "no", "thread", "messages", "provided">>),
      Completion(FALSE, JList(<< [kind |-> "str"] >>), <<"[oops]">>) }

(***************************************************************************)
(* slack_service.py: permalinks and users                                  *)
(***************************************************************************)

\* A permalink given to run_pipeline: whether it holds "/archives/", the
\* characters up to the next "/", whether "/p" follows and the digits after.
Permalink(archives, channel, p, digits) ==
    [kind |-> "str", archives |-> archives, channel |-> channel, p |-> p,
     digits |-> digits]

\* [A-Z0-9]+ on the channel ids of the model.
IsChannelId(channel) == channel \in {"C1", "CDIGEST"}

\* slack_service.py 287-301
parse_permalink(permalink) ==
    IF /\ permalink.archives
       /\ IsChannelId(permalink.channel)
       /\ permalink.p
       /\ Len(permalink.digits) >= 1
    THEN [kind |-> "tuple",
          channel_id |-> permalink.channel,
          message_ts |->
              Ts(SubSeq(permalink.digits, 1,
                        IF Len(permalink.digits) < 10 THEN Len(permalink.digits) ELSE 10),
                 SubSeq(permalink.digits, 11, Len(permalink.digits)))]
    ELSE None

TsShort == Ts(<<1,2,3,4,5>>, <<>>)

\* "https://x.slack.com/archives/C1/p1699000000000000": a thread older
\* than the run window.
PermalinkOld == Permalink(TRUE, "C1", TRUE, TsOld.whole \o TsOld.frac)

Permalinks ==
    { PermalinkOld,
      Permalink(TRUE, "C1", TRUE, <<1,2,3,4,5>>),
      Permalink(FALSE, "C1", TRUE, TsA.whole \o TsA.frac),
      Permalink(TRUE, "c1", TRUE, TsA.whole \o TsA.frac) }

\* The keys "thread-summary:{thread_ts}" of the model.
ThreadKeys == {TsOld, TsA, TsB, TsShort}

\* The keys "user:{user_id}" of the model.
UserIds == {"U1"}

\* users.info: the profile, a response without one, or a SlackApiError.
UserLookups == {"real_name", "name", "no_user", "error"}

\* resolve_user_name storing the raw id after a failed lookup.
resolve_user_name_storing(ucache, user_id, lookup) ==
    LET cached == get_json(ucache, user_id)
    IN  IF cached.kind = "dict" /\ "name" \in DOMAIN cached
        THEN [name |-> cached.name, ucache |-> ucache, asked |-> FALSE]
        ELSE LET real_name == CASE lookup = "real_name" -> "Ann"
                                [] lookup = "name" -> "ann"
                                [] OTHER -> user_id
             IN  [name |-> real_name,
                  ucache |-> set_json(ucache, user_id,
                                      [kind |-> "dict", name |-> real_name]),
                  asked |-> TRUE]

\* slack_service.py 267-281: the name, the user cache after the call, and
\* whether users.info was called. A user that users.info gives without
\* real_name and without name ("nameless") gets its id for a name.
resolve_user_name(ucache, user_id, lookup) ==
    LET cached == get_json(ucache, user_id)
    IN  IF cached.kind = "dict" /\ "name" \in DOMAIN cached
        THEN [name |-> cached.name, ucache |-> ucache, asked |-> FALSE]
        ELSE IF lookup \in {"error", "no_user"}
        THEN [name |-> user_id, ucache |-> ucache, asked |-> TRUE]
        ELSE LET real_name == CASE lookup = "real_name" -> "Ann"
                                [] lookup = "name" -> "ann"
                                [] OTHER -> user_id
             IN  [name |-> real_name,
                  ucache |-> set_json(ucache, user_id,
                                      [kind |-> "dict", name |-> real_name]),
                  asked |-> TRUE]

(***************************************************************************)
(* slack_service.py: threads and posting                                   *)
(***************************************************************************)

Message(user, text) == [kind |-> "dict", user |-> user, text |-> text]
AnonMessage(text) == [kind |-> "dict", text |-> text]

\* What conversations.replies may hold for a thread: nothing, the root
\* alone, the root and a reply.
ThreadBodies ==
    { <<>>,
      << Message("U1", <<"db", "is", "down">>) >>,
      << Message("U1", <<"db", "is", "down">>), AnonMessage(<<"restarted">>) >> }

\* slack_service.py 96-106: the messages, or the RuntimeError of a failed call.
FetchFailed == [kind |-> "raised"]
FetchOutcomes == {FetchFailed} \cup {JList(b) : b \in ThreadBodies}

\* An exception; channel is the channel id its message names ("" for none).
Err(msg, channel) == [msg |-> msg, channel |-> channel]
NoError == Err("", "")

\* chat.postMessage: delivered, refused with not_in_channel, or refused with
\* another SlackApiError.
PostReplies == {"ok", "not_in_channel", "other"}
\* conversations.join and the retried chat.postMessage.
RetryReplies == {"ok", "error"}

\* One call of the Slack Web API and what it answered.
ApiCall(api, reply) == [api |-> api, reply |-> reply]
PostMessage(reply) == ApiCall("chat.postMessage", reply)
Join(reply) == ApiCall("conversations.join", reply)

\* The calls of a trace that went to one API method.
CallsTo(calls, api) == {i \in DOMAIN calls : calls[i].api = api}
\* The chat.postMessage calls of a trace that delivered the message.
Delivered(calls) == {i \in CallsTo(calls, "chat.postMessage") : calls[i].reply = "ok"}

\* PostWithJoin joining and retrying after any refusal.
PostWithJoinAfterAnyError(channel_id, blocks, first, join, retry, failed) ==
    IF blocks = <<>> THEN [calls |-> <<>>, error |-> NoError]
    ELSE IF first = "ok" THEN [calls |-> << PostMessage(first) >>, error |-> NoError]
    ELSE IF join = "error"
    THEN [calls |-> << PostMessage(first), Join(join) >>,
          error |-> Err("Slack post failed: Could not join channel", channel_id)]
    ELSE [calls |-> << PostMessage(first), Join(join), PostMessage(retry) >>,
          error |-> IF retry = "error"
                    THEN Err("Slack post failed: Could not join channel", channel_id)
                    ELSE NoError]

\* slack_service.py 119-145, 147-184 and 237-260: the calls one invocation
\* makes and the error it raises; failed is the message of the error raised
\* on a first attempt refused with another error than not_in_channel.
PostWithJoin(channel_id, blocks, first, join, retry, failed) ==
    IF blocks = <<>> THEN [calls |-> <<>>, error |-> NoError]
    ELSE IF first = "ok" THEN [calls |-> << PostMessage(first) >>, error |-> NoError]
    ELSE IF first = "not_in_channel"
    THEN IF join = "error"
         THEN [calls |-> << PostMessage(first), Join(join) >>,
               error |-> Err("Slack post failed: Could not join channel", channel_id)]
         ELSE [calls |-> << PostMessage(first), Join(join), PostMessage(retry) >>,
               error |-> IF retry = "error"
                         THEN Err("Slack post failed: Could not join channel", channel_id)
                         ELSE NoError]
    ELSE [calls |-> << PostMessage(first) >>, error |-> Err(failed, "")]

\* slack_service.py 119-145
post_blocks(channel_id, blocks, first, join, retry) ==
    PostWithJoin(channel_id, blocks, first, join, retry, "Slack post failed")

\* slack_service.py 147-184
post_blocks_in_thread(channel_id, thread_ts, blocks, first, join, retry) ==
    PostWithJoin(channel_id, blocks, first, join, retry, "Slack post in thread failed")

\* slack_service.py 108-117: the URL chat.getPermalink gives for a thread.
PermalinkUrl(channel_id, ts) ==
    CASE ts = TsA -> "https://x.slack.com/archives/C1/p1699900000000100"
      [] ts = TsB -> "https://x.slack.com/archives/C1/p1699950000000000"
      [] ts = TsOld -> "https://x.slack.com/archives/C1/p1699000000000000"
      [] OTHER -> "https://x.slack.com/archives/C1/p"

(***************************************************************************)
(* runner.py: build_thread_text                                            *)
(***************************************************************************)

\* runner.py 20-28 for the messages from position i on: the transcript
\* lines, the participants and the user cache after the calls. lookups[i]
\* is the answer of users.info should message i need it.
RECURSIVE ThreadLines(_, _, _, _)
ThreadLines(messages, i, ucache, lookups) ==
    IF i > Len(messages)
    THEN [lines |-> <<>>, participants |-> {}, ucache |-> ucache]
    ELSE LET message == messages[i]
             named == "user" \in DOMAIN message
             res == IF named
                    THEN resolve_user_name(ucache, message.user, lookups[i])
                    ELSE [name |-> "Unknown", ucache |-> ucache]
             rest == ThreadLines(messages, i + 1, res.ucache, lookups)
         IN  [lines |-> << <<res.name, ":">> \o Get(message, "text") >> \o rest.lines,
              participants |-> (IF named THEN {res.name} ELSE {}) \cup rest.participants,
              ucache |-> rest.ucache]

\* The names of the model in the order of Python's comparison of str, which
\* goes by code point: capitals before small letters, digits before both.
NamesInOrder == << "Ann", "U1", "Unknown", "ann" >>

NameRank(name) == CHOOSE i \in DOMAIN NamesInOrder : NamesInOrder[i] = name

\* The names from the greatest to the least.
RECURSIVE sorted_descending(_)
sorted_descending(names) ==
    IF names = {} THEN <<>>
    ELSE LET greatest == CHOOSE n \in names : \A m \in names : NameRank(m) <= NameRank(n)
         IN  << greatest >> \o sorted_descending(names \ {greatest})

\* sorted() of a set of names.
RECURSIVE sorted(_)
sorted(names) ==
    IF names = {} THEN <<>>
    ELSE LET least == CHOOSE n \in names : \A m \in names : NameRank(n) <= NameRank(m)
         IN  << least >> \o sorted(names \ {least})

\* runner.py 14-29
build_thread_text(messages, ucache, lookups) ==
    LET res == ThreadLines(messages, 1, ucache, lookups)
    IN  [lines |-> res.lines,
         participants |-> sorted(res.participants),
         ucache |-> res.ucache]

(***************************************************************************)
(* State                                                                   *)
(***************************************************************************)

VARIABLES
    settings,           \* Settings(): dry_run, max_threads
    invocation,         \* how the process is started: main's flags, or a direct call
    runsLeft,           \* runs still to start
    cache,              \* Redis: thread-summary:{ts} -> stored text
    userCache,          \* Redis: user:{id} -> stored text
    expired,            \* thread-summary keys whose entry ran out of TTL
    pc,                 \* where the run is
    mode,               \* "permalink" or "window"
    effective_dry_run,  \* runner.py 44
    cutoff,             \* runner.py 65
    matches,            \* runner.py 66
    idx,                \* position of the loops at runner.py 86 and 144
    threads,            \* runner.py 46
    fetched,            \* what the last fetch_thread returned
    enriched,           \* per thread of the loop at 144: what it used
    blocks,             \* runner.py 143
    cacheConn,          \* the Redis connection of the run: none, open, closed
    error,              \* the exception the run ended with
    postAttempts,       \* chat.postMessage calls of the run
    joinCalls,          \* conversations.join calls of the run
    posted,             \* the messages delivered to the channel by the run
    summarizeCalls,     \* Summarizer.summarize calls of the run
    prevEnriched,       \* enriched of the run before
    prevSummarizeCalls, \* summarizeCalls of the run before
    gwCall,             \* the last call of post_blocks or post_blocks_in_thread
    slackMsgs,          \* the messages of the workspace, oldest first
    anchorPc,           \* per caller of get_or_create_weekly_thread: where it is
    anchorWeek,         \* per caller: the week it asks for
    anchorFound,        \* per caller: what its search returned
    anchorCalls,        \* per caller: the posting calls it made
    anchorResult,       \* per caller: the timestamp returned, or the error
    gatewayCallsLeft,   \* calls of the gateway still to start
    overlapped,         \* a call started while another was under way
    searchMissed,       \* a search failed or left out a message that qualifies
    srchPc,             \* where the call of search_messages is
    srchLimit,          \* its limit
    srchPage,           \* slack_service.py 25: page
    srchAll,            \* slack_service.py 24: all_matches
    srchPending,        \* matches of the page not yet through the filter
    srchPages,          \* slack_service.py 44: total_pages of the page
    srchRequests,       \* the search.messages requests made, in order
    srchResult,         \* what search_messages returned, or the error
    botCache,           \* Redis: user_is_bot:{id} -> stored text
    lookupCall          \* the last call of resolve_user_name or _is_bot_user

pipelineVars ==
    << settings, invocation, runsLeft, cache, userCache, expired, pc, mode,
       effective_dry_run, cutoff, matches, idx, threads, fetched, enriched,
       blocks, cacheConn, error, postAttempts, joinCalls, posted,
       summarizeCalls, prevEnriched, prevSummarizeCalls >>

gatewayVars ==
    << gwCall, slackMsgs, anchorPc, anchorWeek, anchorFound, anchorCalls,
       anchorResult, gatewayCallsLeft, overlapped, searchMissed >>

searchVars ==
    << srchPc, srchLimit, srchPage, srchAll, srchPending, srchPages,
       srchRequests, srchResult, botCache, lookupCall >>

vars == << pipelineVars, gatewayVars, searchVars >>

NoPermalink == [kind |-> "none"]

\* main with its two flags. Its settings object is Settings() of config.py,
\* which has the fields llm_api_key and llm_model and no attribute
\* openai_api_key or openai_model.
ViaMain(flag_dry_run, flag_no_dry_run) ==
    [via |-> "main", flag_dry_run |-> flag_dry_run,
     flag_no_dry_run |-> flag_no_dry_run, dry_run |-> "None",
     permalink |-> NoPermalink, openai_fields |-> FALSE]

\* run_pipeline(settings, dry_run, permalink), called with a permalink or
\* with None, by a caller whose settings object carries the attributes
\* openai_api_key and openai_model that runner.py 41-42 reads.
ViaRunPipeline(dry_run, permalink) ==
    [via |-> "run_pipeline", flag_dry_run |-> FALSE, flag_no_dry_run |-> FALSE,
     dry_run |-> dry_run, permalink |-> permalink, openai_fields |-> TRUE]

\* config.py 5-25: the settings the model varies.
Settings(dry_run, max_threads) == [dry_run |-> dry_run, max_threads |-> max_threads]

\* A search match: thread_ts and ts (a timestamp or None), channel (an
\* object with or without id, a string, or None) and channel_id.
Match(thread_ts, ts, channel, channel_id) ==
    [kind |-> "dict", thread_ts |-> thread_ts, ts |-> ts,
     channel |-> channel, channel_id |-> channel_id]

Str(s) == [kind |-> "str", val |-> s]
ChannelObj == [kind |-> "dict", id |-> Str("C1")]

MatchRecords ==
    { Match(None, TsA, ChannelObj, None),
      Match(TsB, TsB, ChannelObj, None),
      Match(TsOld, TsReply, ChannelObj, None),
      Match(TsA, TsB, ChannelObj, None),
      Match(None, TsOld, ChannelObj, None),
      Match(None, None, ChannelObj, None),
      Match(None, TsB, None, Str("C1")),
      Match(None, TsA, [kind |-> "dict", name |-> Str("general")], None),
      Match(None, TsA, Str("C1"), None) }

RECURSIVE SeqsUpTo(_, _)
SeqsUpTo(S, n) ==
    IF n = 0 THEN { <<>> }
    ELSE LET shorter == SeqsUpTo(S, n - 1)
         IN  shorter \cup { Append(q, x) : q \in shorter, x \in S }

\* slack_service.py 23-52, as run_pipeline sees it: a list of matches or
\* the RuntimeError of a failed page.
SearchFailed == [kind |-> "raised"]
SearchOutcomes == {SearchFailed} \cup {JList(q) : q \in SeqsUpTo(MatchRecords, MaxMatches)}

EmptyCache == [k \in ThreadKeys |-> NoEntry]

InitRun ==
    /\ pc = "idle"
    /\ mode = "none"
    /\ effective_dry_run = FALSE
    /\ cutoff = Now
    /\ matches = <<>>
    /\ idx = 1
    /\ threads = <<>>
    /\ fetched = None
    /\ enriched = <<>>
    /\ blocks = <<>>
    /\ cacheConn = "none"
    /\ error = NoError
    /\ postAttempts = 0
    /\ joinCalls = 0
    /\ posted = <<>>
    /\ summarizeCalls = 0
    /\ prevEnriched = <<>>
    /\ prevSummarizeCalls = 0

\* How a process is started, with what environment and what Redis holds.
Start(how, env, store) == [invocation |-> how, settings |-> env, cache |-> store]

StoredSummary == [EmptyCache EXCEPT ![TsA] = json_dumps(JList(SummaryBlocks))]
StoredGarbage == [EmptyCache EXCEPT ![TsA] = Garbage]

Starts ==
    { Start(ViaRunPipeline("False", NoPermalink), Settings(FALSE, 2), EmptyCache),
      Start(ViaRunPipeline("True", NoPermalink), Settings(FALSE, 1), StoredSummary),
      Start(ViaRunPipeline("None", NoPermalink), Settings(TRUE, 2), StoredGarbage),
      Start(ViaRunPipeline("False", NoPermalink), Settings(TRUE, 1), EmptyCache),
      Start(ViaMain(FALSE, FALSE), Settings(FALSE, 2), EmptyCache),
      Start(ViaMain(TRUE, TRUE), Settings(FALSE, 1), EmptyCache) }
    \cup
    { Start(ViaRunPipeline(d, p), Settings(TRUE, 0), EmptyCache) :
          d \in {"None", "False"}, p \in Permalinks }

(***************************************************************************)
(* slack_service.py: the human-message filter and its lookups              *)
(***************************************************************************)

\* A JSON boolean.
Bool(b) == [kind |-> "bool", val |-> b]

\* bool(v): Python's truth value of a JSON value.
truth(v) ==
    CASE v.kind = "none" -> FALSE
      [] v.kind = "str" -> v.val # ""
      [] v.kind = "bool" -> v.val
      [] v.kind = "list" -> v.items # <<>>
      [] OTHER -> TRUE

\* str.upper() on the user ids of the model.
Upper(t) ==
    CASE t = "uslackbot" -> "USLACKBOT"
      [] t = "USlackbot" -> "USLACKBOT"
      [] OTHER -> t

\* A record of search.messages, with the fields the filter reads.
Hit(subtype, bot_id, app_id, username, user, user_profile) ==
    [kind |-> "dict", subtype |-> subtype, bot_id |-> bot_id, app_id |-> app_id,
     username |-> username, user |-> user, user_profile |-> user_profile]

\* The user_profile embedded in a record.
Profile(is_bot, display_name_normalized, real_name_normalized, name) ==
    [kind |-> "dict", is_bot |-> is_bot,
     display_name_normalized |-> display_name_normalized,
     real_name_normalized |-> real_name_normalized, name |-> name]

\* Records the filter keeps unless the lookup of the user says bot.
HumanHits ==
    { Hit(None, None, None, None, Str("U1"), None),
      Hit(None, None, None, None, None, None),
      Hit(Str("thread_broadcast"), Str(""), None, Str("ann"), Str("U1"),
          Profile(Bool(FALSE), Str("Ann"), None, None)),
      Hit(None, None, None, None, None,
          Profile(None, Str(""), Str("Bob"), Str("slackbot"))) }

\* Records that carry a mark of a bot or of the system.
BotHits ==
    { Hit(Str("bot_message"), None, None, None, Str("U1"), None),
      Hit(Str("slackbot_response"), None, None, None, None, None),
      Hit(Str("app_message"), None, None, None, None, None),
      Hit(None, Str("B1"), None, None, Str("U1"), None),
      Hit(None, None, Str("A1"), None, Str("U1"), None),
      Hit(None, None, None, Str("hook"), None, None),
      Hit(None, None, None, Str("hook"), Str(""), None),
      Hit(None, None, None, None, Str("uslackbot"), None),
      Hit(None, None, None, None, Str("USLACKBOT"), None),
      Hit(None, None, None, None, None, Profile(Bool(TRUE), None, None, None)),
      Hit(None, None, None, None, None, Profile(None, Str("Slackbot"), None, None)),
      Hit(None, None, None, None, None,
          Profile(Bool(FALSE), Str(""), Str("SLACKBOT"), None)),
      Hit(None, None, None, None, None, Profile(None, None, None, Str("slackbot"))) }

Hits == HumanHits \cup BotHits

\* users.info as _is_bot_user reads it: a user marked a bot, a user marked
\* not a bot, a user without the mark, a response without a user, or a
\* SlackApiError.
BotLookups == {"bot", "human", "no_mark", "no_user", "error"}

\* slack_service.py 80-94: the answer, the cache after the call, and
\* whether users.info was called.
is_bot_user(bcache, user_id, lookup) ==
    LET cached == get_json(bcache, user_id)
    IN  IF /\ cached.kind = "dict"
           /\ "is_bot" \in DOMAIN cached
           /\ cached.is_bot.kind = "bool"
        THEN [is_bot |-> cached.is_bot.val, bcache |-> bcache, asked |-> FALSE]
        ELSE IF lookup \in {"error", "no_user"}
        THEN [is_bot |-> FALSE, bcache |-> bcache, asked |-> TRUE]
        ELSE LET is_bot == lookup = "bot"
             IN  [is_bot |-> is_bot,
                  bcache |-> set_json(bcache, user_id,
                                      [kind |-> "dict", is_bot |-> Bool(is_bot)]),
                  asked |-> TRUE]

\* slack_service.py 71-75: a or b or c.
FirstTruthy(a, b, c) == IF truth(a) THEN a ELSE IF truth(b) THEN b ELSE c

\* The embedded profile read for its is_bot mark only.
ProfileMarkedBot(profile) == profile.kind = "dict" /\ truth(Get(profile, "is_bot"))

\* slack_service.py 67-78: what the embedded profile says.
ProfileSaysBot(profile) ==
    /\ profile.kind = "dict"
    /\ \/ truth(Get(profile, "is_bot"))
       \/ LET name == FirstTruthy(Get(profile, "display_name_normalized"),
                                  Get(profile, "real_name_normalized"),
                                  Get(profile, "name"))
          IN  name.kind = "str" /\ LowerTok(name.val) = "slackbot"

\* slack_service.py 54-78: whether the record is kept, and the cache after
\* the call.
is_human_message(match, bcache, lookup) ==
    LET subtype == Get(match, "subtype")
        user == Get(match, "user")
    IN  IF /\ subtype.kind = "str"
           /\ subtype.val \in {"bot_message", "slackbot_response", "app_message"}
        THEN [human |-> FALSE, bcache |-> bcache]
        ELSE IF truth(Get(match, "bot_id")) \/ truth(Get(match, "app_id"))
        THEN [human |-> FALSE, bcache |-> bcache]
        ELSE IF truth(Get(match, "username")) /\ ~truth(user)
        THEN [human |-> FALSE, bcache |-> bcache]
        ELSE IF user.kind = "str" /\ Upper(user.val) = "USLACKBOT"
        THEN [human |-> FALSE, bcache |-> bcache]
        ELSE LET bot == IF user.kind = "str"
                        THEN is_bot_user(bcache, user.val, lookup)
                        ELSE [is_bot |-> FALSE, bcache |-> bcache, asked |-> FALSE]
             IN  IF bot.is_bot
                 THEN [human |-> FALSE, bcache |-> bot.bcache]
                 ELSE [human |-> ~ProfileSaysBot(Get(match, "user_profile")),
                       bcache |-> bot.bcache]

(***************************************************************************)
(* The workspace as slack_service.py meets it outside a pipeline run       *)
(***************************************************************************)

\* Calls of the gateway one behaviour starts.
MaxGatewayCalls == 2

\* The processes that call get_or_create_weekly_thread.
Callers == {"run1", "run2"}

\* The Mondays asked for: 2023-11-06 and 2023-11-13.
Weeks ==
    { [secs |-> 19667 * SecondsPerDay, micros |-> 0],
      [secs |-> 19674 * SecondsPerDay, micros |-> 0] }

\* slack_service.py 199, 214, 232, 241: the text that tags a week's anchor.
WeeklyTag(date_str) == <<"Firefighter", "weekly", "summary", date_str>>

\* slack_service.py 227-235
AnchorBlocks(date_str) == << HeaderBlock(WeeklyTag(date_str)) >>

\* A message of the workspace, as search.messages returns it.
Msg(channel, ts, text, msg_blocks, by) ==
    [kind |-> "dict", channel |-> channel, ts |-> ts, text |-> text,
     blocks |-> msg_blocks, by |-> by]

\* Messages that were there before any call: a user's message in the digest
\* channel quoting the tag of a week, the same tag in another channel (its
\* channel given as a plain id), and an unrelated message.
QuotedTag ==
    Msg([kind |-> "dict", id |-> Str(slack_channel_id)], Str(1),
        <<"re:">> \o WeeklyTag("2023-11-06") \o <<"thanks">>, <<>>, "user")
ElsewhereTag ==
    Msg(Str("COTHER"), Str(1), WeeklyTag("2023-11-13"),
        AnchorBlocks("2023-11-13"), "user")
Unrelated ==
    Msg([kind |-> "dict", id |-> Str(slack_channel_id)], Str(1),
        <<"Firefighter", "daily", "summary">>, <<>>, "user")

Workspaces == { <<>>, << QuotedTag >>, << ElsewhereTag >>, << Unrelated >> }

\* No call of post_blocks or post_blocks_in_thread yet.
NoCall ==
    [op |-> "none", channel_id |-> "", thread_ts |-> None, blocks |-> <<>>,
     calls |-> <<>>, error |-> NoError]

InitGateway(workspaces, anchor_calls) ==
    /\ gwCall = NoCall
    /\ slackMsgs \in workspaces
    /\ anchorPc = [p \in Callers |-> "idle"]
    /\ anchorWeek = [p \in Callers |-> None]
    /\ anchorFound = [p \in Callers |-> None]
    /\ anchorCalls = [p \in Callers |-> <<>>]
    /\ anchorResult = [p \in Callers |-> None]
    /\ gatewayCallsLeft = anchor_calls
    /\ overlapped = FALSE
    /\ searchMissed = FALSE

\* No call of resolve_user_name or _is_bot_user yet.
NoLookup == [fn |-> "none"]

\* No call of search_messages yet; Redis holds one of bcaches for the bots.
InitSearch(bcaches) ==
    /\ srchPc = "idle"
    /\ srchLimit = 0
    /\ srchPage = 1
    /\ srchAll = <<>>
    /\ srchPending = <<>>
    /\ srchPages = 1
    /\ srchRequests = <<>>
    /\ srchResult = None
    /\ botCache \in bcaches
    /\ lookupCall = NoLookup

\* Redis without an entry for any user.
NoBots == [u \in UserIds |-> NoEntry]

\* Redis without a name for any user.
NoNames == [u \in UserIds |-> NoEntry]

InitPipeline(starts, runs, ucaches) ==
    /\ \E st \in starts :
          /\ settings = st.settings
          /\ invocation = st.invocation
          /\ cache = st.cache
    /\ runsLeft = runs
    /\ userCache \in ucaches
    /\ expired = {}
    /\ InitRun

\* A process that runs the pipeline and makes no other call of the gateway.
InitFrom(starts, runs) ==
    /\ InitPipeline(starts, runs, { NoNames })
    /\ InitGateway({ <<>> }, 0)
    /\ InitSearch({ NoBots })

\* One run of the pipeline.
Init == InitFrom(Starts, 1)

(***************************************************************************)
(* runner.py: run_pipeline                                                 *)
(***************************************************************************)

Terminated == pc \in {"done", "raised"}

\* The run ends with an exception: nothing after the raise is executed.
Raise(e) ==
    /\ pc' = "raised"
    /\ error' = e

\* The run leaves everything of Redis, the gateway and the summarizer alone.
NoCalls ==
    UNCHANGED << cache, userCache, postAttempts, joinCalls, posted, summarizeCalls >>

\* ItemTs preferring the timestamp of the matched message.
ItemTsOfMatch(item) == IF item.ts.kind # "none" THEN item.ts ELSE item.thread_ts

\* runner.py 87-99, before the fetch: the thread an item names, if any.
ItemTs(item) == IF item.thread_ts.kind # "none" THEN item.thread_ts ELSE item.ts

\* runner.py 93: channel_info.get raises AttributeError on a string.
ItemChannelRaises(item) == item.channel.kind = "str"

\* runner.py 93-94
ItemChannel(item) ==
    LET channel_info == IF item.channel.kind = "none" THEN [kind |-> "dict"]
                        ELSE item.channel
    IN  IF Get(channel_info, "id").kind # "none" THEN channel_info.id
        ELSE IF item.channel.kind # "none" THEN item.channel
        ELSE item.channel_id

\* runner.py 58-63 and 101-108
Candidate(channel_id, thread_ts, messages, dt) ==
    [channel_id |-> channel_id, thread_ts |-> thread_ts,
     messages |-> messages, dt |-> dt]

\* runner.py 98: the fewest messages a thread found by the search must have.
MinMessages == 2

\* TooShort dropping only the threads without any message.
TooShortOnlyIfEmpty(thread_messages) == thread_messages = <<>>

\* runner.py 98
TooShort(thread_messages) == Len(thread_messages) < MinMessages

\* runner.py 91
OutsideWindow(dt, lower) == Before(dt, lower)

\* runner.py 54
EmptyThread(thread_messages) == thread_messages = <<>>

\* AfterThread posting from inside the loop.
AfterThreadPostAtOnce(i, n) == "post"

\* runner.py 144 and 171: the loop goes on to the next thread, and the
\* digest is posted after the last one.
AfterThread(i, n) == IF i = n THEN "post" ELSE "enrich"

\* runner.py 40-43: settings.openai_api_key on an object without the
\* attribute.
SetUpError == Err("AttributeError: 'Settings' object has no attribute 'openai_api_key'", "")

\* runner.py 32-66: run_pipeline up to the start of discovery. The state of
\* the run before is dropped, what it used is kept in prevEnriched.
Begin(dry_run, permalink) ==
    /\ runsLeft' = runsLeft - 1
    /\ prevEnriched' = enriched
    /\ prevSummarizeCalls' = summarizeCalls
    /\ cacheConn' = "open"
    /\ enriched' = <<>>
    /\ blocks' = <<>>
    /\ idx' = 1
    /\ postAttempts' = 0
    /\ joinCalls' = 0
    /\ posted' = <<>>
    /\ summarizeCalls' = 0
    /\ UNCHANGED << settings, invocation, cache, userCache, expired >>
    /\ IF ~invocation.openai_fields
       THEN /\ Raise(SetUpError)
            /\ mode' = "none"
            /\ threads' = <<>>
            /\ fetched' = None
            /\ matches' = <<>>
            /\ UNCHANGED << effective_dry_run, cutoff >>
       ELSE
       /\ effective_dry_run' = (IF dry_run = "None" THEN settings.dry_run
                                ELSE dry_run = "True")
       /\ IF permalink.kind # "none"
          THEN /\ mode' = "permalink"
               /\ cutoff' = Now
               /\ matches' = <<>>
               /\ LET parsed == parse_permalink(permalink)
                  IN  IF parsed.kind = "none"
                      THEN /\ Raise(Err("Invalid permalink format", ""))
                           /\ threads' = <<>>
                           /\ fetched' = None
                      ELSE \E outcome \in FetchOutcomes :
                           /\ fetched' = outcome
                           /\ IF outcome.kind = "raised"
                              THEN /\ Raise(Err("Slack thread fetch failed", ""))
                                   /\ threads' = <<>>
                              ELSE IF EmptyThread(outcome.items)
                              THEN /\ Raise(Err("No messages found for permalink", ""))
                                   /\ threads' = <<>>
                              ELSE /\ pc' = "truncate"
                                   /\ error' = NoError
                                   /\ threads' =
                                        << Candidate(parsed.channel_id, parsed.message_ts,
                                                     outcome.items,
                                                     ts_to_datetime(parsed.message_ts)) >>
          ELSE /\ mode' = "window"
               /\ cutoff' = MinusDays(Now, lookback_days)
               /\ threads' = <<>>
               /\ fetched' = None
               /\ \E found \in SearchOutcomes :
                     IF found.kind = "raised"
                     THEN /\ Raise(Err("Slack search failed", ""))
                          /\ matches' = <<>>
                     ELSE /\ matches' = found.items
                          /\ pc' = IF found.items = <<>> THEN "truncate" ELSE "discover"
                          /\ error' = NoError

CanStart == pc \in {"idle", "done", "raised"} /\ runsLeft > 0

\* main.py 22-43
Main ==
    /\ UNCHANGED << gatewayVars, searchVars >>
    /\ CanStart
    /\ invocation.via = "main"
    /\ IF invocation.flag_dry_run /\ invocation.flag_no_dry_run
       THEN /\ Raise(Err("Choose only one of --dry-run or --no-dry-run", ""))
            /\ runsLeft' = runsLeft - 1
            /\ UNCHANGED << settings, invocation, cache, userCache, expired, mode,
                            effective_dry_run, cutoff, matches, idx, threads, fetched,
                            enriched, blocks, cacheConn, postAttempts, joinCalls,
                            posted, summarizeCalls, prevEnriched, prevSummarizeCalls >>
       ELSE LET override_dry_run ==
                    IF invocation.flag_dry_run THEN "True"
                    ELSE IF invocation.flag_no_dry_run THEN "False"
                    ELSE "None"
                effective ==
                    IF override_dry_run = "None" THEN settings.dry_run
                    ELSE override_dry_run = "True"
            IN  Begin(IF effective THEN "True" ELSE "False", NoPermalink)

\* run_pipeline(settings, dry_run, permalink), called by another caller
\* than main, with a permalink or without one.
RunPermalink ==
    /\ UNCHANGED << gatewayVars, searchVars >>
    /\ CanStart
    /\ invocation.via = "run_pipeline"
    /\ Begin(invocation.dry_run, invocation.permalink)

\* runner.py 86-108: one item of the loop over the matches.
DiscoverItem ==
    /\ UNCHANGED << gatewayVars, searchVars >>
    /\ pc = "discover"
    /\ LET item == matches[idx]
           ts == ItemTs(item)
           next == IF idx = Len(matches) THEN "truncate" ELSE "discover"
           skip == /\ pc' = next
                   /\ error' = NoError
                   /\ UNCHANGED << threads, fetched >>
       IN  /\ idx' = idx + 1
           /\ IF ts.kind = "none" THEN skip
              ELSE IF OutsideWindow(ts_to_datetime(ts), cutoff) THEN skip
              ELSE IF ItemChannelRaises(item)
              THEN /\ Raise(Err("AttributeError", ""))
                   /\ UNCHANGED << threads, fetched >>
              ELSE IF ItemChannel(item).kind # "str" THEN skip
              ELSE \E outcome \in FetchOutcomes :
                   /\ fetched' = outcome
                   /\ IF outcome.kind = "raised"
                      THEN /\ Raise(Err("Slack thread fetch failed", ""))
                           /\ UNCHANGED threads
                      ELSE /\ pc' = next
                           /\ error' = NoError
                           /\ threads' =
                                IF TooShort(outcome.items) THEN threads
                                ELSE Append(threads,
                                            Candidate(ItemChannel(item).val, ts,
                                                      outcome.items, ts_to_datetime(ts)))
    /\ NoCalls
    /\ UNCHANGED << settings, invocation, runsLeft, expired, mode, effective_dry_run,
                    cutoff, matches, enriched, blocks, cacheConn,
                    prevEnriched, prevSummarizeCalls >>

\* runner.py 110-111
Truncated(found, max_threads) ==
    IF max_threads # 0 /\ Len(found) > max_threads
    THEN SubSeq(found, 1, max_threads)
    ELSE found

\* runner.py 110-111, and the entry of the loop at 144.
Truncate ==
    /\ UNCHANGED << gatewayVars, searchVars >>
    /\ pc = "truncate"
    /\ threads' = Truncated(threads, settings.max_threads)
    /\ pc' = IF threads = <<>> THEN "post" ELSE "enrich"
    /\ idx' = 1
    /\ matches' = <<>>
    /\ fetched' = None
    /\ NoCalls
    /\ UNCHANGED << settings, invocation, runsLeft, expired, mode, effective_dry_run,
                    cutoff, enriched, blocks, cacheConn, error,
                    prevEnriched, prevSummarizeCalls >>

\* chain.invoke: a completion, or the exception of a failed call.
ModelFailed == [kind |-> "raised"]

\* runner.py 161-169: what one thread adds to the digest.
Contribution(summary_blocks, permalink) ==
    IF is_placeholder_thread(summary_blocks) THEN <<>>
    ELSE summary_blocks.items
         \o (IF permalink.kind = "str" THEN << ViewThreadBlock(permalink.val) >> ELSE <<>>)
         \o << DividerBlock >>

\* The blocks of a thread put in front of the digest so far.
AssembleInFront(assembled, contribution) == contribution \o assembled

\* runner.py 162-169: the blocks of a thread go to the end of the digest.
Assemble(assembled, contribution) == assembled \o contribution

\* runner.py 150: whether the stored summary is used.
CacheHit(cached) == Truthy(cached)

\* runner.py 144-169: one thread of the loop.
Enrich ==
    /\ UNCHANGED << gatewayVars, searchVars >>
    /\ pc = "enrich"
    /\ LET thread == threads[idx]
           cache_key == thread.thread_ts
           cached == get_json(cache, cache_key)
           timestamp_str == strftime(thread.dt)
           next == AfterThread(idx, Len(threads))
       IN  \E lookups \in [1..Len(thread.messages) -> UserLookups] :
           LET text == build_thread_text(thread.messages, userCache, lookups)
           IN  /\ userCache' = text.ucache
               /\ \E raw \in Completions \cup {ModelFailed},
                     link \in {None, Str(PermalinkUrl(thread.channel_id, thread.thread_ts))} :
                  LET hit == CacheHit(cached)
                      failed == ~hit /\ raw.kind = "raised"
                      summary_blocks ==
                          IF hit THEN cached
                          ELSE IF failed THEN JList(<<>>)
                          ELSE summarize(timestamp_str, raw)
                  IN  /\ summarizeCalls' = IF hit THEN summarizeCalls
                                           ELSE summarizeCalls + 1
                      /\ IF failed
                         THEN /\ Raise(Err("model call failed", ""))
                              /\ UNCHANGED << cache, enriched, blocks, idx >>
                         ELSE /\ cache' = IF hit THEN cache
                                          ELSE set_json(cache, cache_key, summary_blocks)
                              /\ IF PlaceholderCheckRaises(summary_blocks)
                                 THEN /\ Raise(Err("AttributeError", ""))
                                      /\ UNCHANGED << enriched, blocks, idx >>
                                 ELSE /\ pc' = next
                                      /\ error' = NoError
                                      /\ idx' = idx + 1
                                      /\ blocks' = Assemble(blocks, Contribution(summary_blocks, link))
                                      /\ enriched' =
                                           Append(enriched,
                                                  [thread_ts |-> thread.thread_ts,
                                                   summary_blocks |-> summary_blocks,
                                                   hit |-> hit,
                                                   permalink |-> link])
    /\ UNCHANGED << settings, invocation, runsLeft, expired, mode, effective_dry_run,
                    cutoff, matches, threads, fetched, cacheConn, postAttempts,
                    joinCalls, posted, prevEnriched, prevSummarizeCalls >>

\* Digest without the substitution of the fixed block.
DigestAsAssembled(assembled) == assembled

\* runner.py 171-180
Digest(assembled) == IF assembled = <<>> THEN << NoThreadsBlock >> ELSE assembled

\* runner.py 184: whether run_pipeline closes the cache on this way out.
ClosesCache(way) == way = "return"

\* runner.py 171-184
Post ==
    /\ UNCHANGED << gatewayVars, searchVars >>
    /\ pc = "post"
    /\ blocks' = Digest(blocks)
    /\ \E first \in PostReplies, join, retry \in RetryReplies :
       LET res == post_blocks(slack_channel_id, blocks', first, join, retry)
       IN  /\ postAttempts' = postAttempts
                                 + Cardinality(CallsTo(res.calls, "chat.postMessage"))
           /\ joinCalls' = joinCalls
                              + Cardinality(CallsTo(res.calls, "conversations.join"))
           /\ posted' = IF Delivered(res.calls) # {} THEN Append(posted, blocks')
                        ELSE posted
           /\ IF res.error = NoError
              THEN /\ pc' = "done"
                   /\ error' = NoError
                   /\ cacheConn' = IF ClosesCache("return") THEN "closed" ELSE cacheConn
              ELSE /\ Raise(res.error)
                   /\ cacheConn' = IF ClosesCache("raise") THEN "closed" ELSE cacheConn
    /\ UNCHANGED << settings, invocation, runsLeft, cache, userCache, expired, mode,
                    effective_dry_run, cutoff, matches, idx, threads, fetched,
                    enriched, summarizeCalls, prevEnriched, prevSummarizeCalls >>

\* Redis drops a thread-summary entry whose TTL has run out.
Expire ==
    /\ UNCHANGED << gatewayVars, searchVars >>
    /\ pc \in {"idle", "done", "raised", "enrich"}
    /\ runsLeft > 0 \/ pc = "enrich"
    /\ \E k \in ThreadKeys :
          /\ cache[k].kind # "absent"
          /\ cache' = [cache EXCEPT ![k] = NoEntry]
          /\ expired' = expired \cup {k}
    /\ UNCHANGED << settings, invocation, runsLeft, userCache, pc, mode,
                    effective_dry_run, cutoff, matches, idx, threads, fetched,
                    enriched, blocks, cacheConn, error, postAttempts, joinCalls,
                    posted, summarizeCalls, prevEnriched, prevSummarizeCalls >>

Next ==
    \/ Main
    \/ RunPermalink
    \/ DiscoverItem
    \/ Truncate
    \/ Enrich
    \/ Post
    \/ Expire

Spec == Init /\ [][Next]_vars

\* A Redis whose thread-summary entries and user entries hold text that is
\* not JSON.
GarbageSummaries == [EmptyCache EXCEPT ![TsA] = Garbage, ![TsOld] = Garbage]

GarbageNames == [u \in UserIds |-> Garbage]

GarbageStarts ==
    { Start(ViaRunPipeline("None", NoPermalink), Settings(TRUE, 2), GarbageSummaries),
      Start(ViaRunPipeline("None", PermalinkOld), Settings(TRUE, 0), GarbageSummaries),
      Start(ViaMain(FALSE, FALSE), Settings(TRUE, 2), GarbageSummaries) }

InitGarbage ==
    /\ InitPipeline(GarbageStarts, 1, { GarbageNames })
    /\ InitGateway({ <<>> }, 0)
    /\ InitSearch({ NoBots })

\* One run over a Redis that holds malformed text.
SpecGarbage == InitGarbage /\ [][Next]_vars

\* Two successive runs over the same Redis.
TwoRunStarts ==
    { Start(ViaRunPipeline("None", NoPermalink), Settings(FALSE, 1), EmptyCache),
      Start(ViaRunPipeline("None", PermalinkOld), Settings(FALSE, 0), EmptyCache),
      Start(ViaMain(FALSE, FALSE), Settings(FALSE, 1), EmptyCache) }

InitTwoRuns == InitFrom(TwoRunStarts, 2)

SpecTwoRuns == InitTwoRuns /\ [][Next]_vars

(***************************************************************************)
(* slack_service.py: posting and the weekly anchor, called on their own    *)
(***************************************************************************)

\* slack_service.py 205: the count asked of search.messages.
AnchorSearchCount == 10

\* slack_service.py 203-209, 222: what the search answers: an error, or the
\* messages of the workspace its index holds by then, oldest first, count at
\* the most.
AnchorSearchOutcomes(msgs) ==
    {SearchFailed} \cup
    { [kind |-> "dict", matches |-> SubSeq(msgs, 1, n)] :
          n \in {k \in 0..Len(msgs) : k <= AnchorSearchCount} }

\* slack_service.py 216-217
MatchChannelId(match) ==
    LET channel_info == Get(match, "channel")
    IN  IF channel_info.kind = "dict" THEN Get(channel_info, "id")
        ELSE Get(match, "channel")

\* Qualifies without the check of the channel.
QualifiesInAnyChannel(match, channel_id, date_str) ==
    Contains(WeeklyTag(date_str), Get(match, "text"))

\* slack_service.py 213-218: the match carries the tag and is in the channel.
Qualifies(match, channel_id, date_str) ==
    /\ Contains(WeeklyTag(date_str), Get(match, "text"))
    /\ LET match_channel_id == MatchChannelId(match)
       IN  match_channel_id.kind = "str" /\ match_channel_id.val = channel_id

\* slack_service.py 212-221: the ts the loop returns, or None when it ends
\* without returning.
FirstAnchor(found, channel_id, date_str) ==
    IF found.kind = "raised" THEN None
    ELSE LET hits == { i \in DOMAIN found.matches :
                          /\ Qualifies(found.matches[i], channel_id, date_str)
                          /\ Get(found.matches[i], "ts").kind = "str" }
         IN  IF hits = {} THEN None
             ELSE Get(found.matches[CHOOSE i \in hits : \A j \in hits : i <= j], "ts")

\* A failed search ends the call with an error.
AfterAnchorSearchRaising(found, ts) ==
    IF found.kind = "raised" THEN "raised"
    ELSE IF ts.kind = "str" THEN "returned" ELSE "creating"

\* slack_service.py 219-226: the call returns the ts found; it goes on to
\* create the anchor when the loop ended without one or the search raised
\* SlackApiError.
AfterAnchorSearch(found, ts) == IF ts.kind = "str" THEN "returned" ELSE "creating"

\* The RuntimeError a call raises.
Raised(e) == [kind |-> "raised", msg |-> e.msg, channel |-> e.channel]

\* The channels posted to: the digest channel and the channel of a thread.
Channels == {slack_channel_id, "C1"}

\* slack_service.py 119-145, called with any blocks.
PostBlocksCall ==
    /\ gatewayCallsLeft > 0
    /\ gatewayCallsLeft' = gatewayCallsLeft - 1
    /\ \E channel_id \in Channels, bs \in { <<>>, << NoThreadsBlock >> },
          first \in PostReplies, join \in RetryReplies, retry \in RetryReplies :
          LET res == post_blocks(channel_id, bs, first, join, retry)
          IN  gwCall' = [op |-> "post_blocks", channel_id |-> channel_id,
                         thread_ts |-> None, blocks |-> bs,
                         calls |-> res.calls, error |-> res.error]
    /\ UNCHANGED << slackMsgs, anchorPc, anchorWeek, anchorFound, anchorCalls,
                    anchorResult, overlapped, searchMissed >>
    /\ UNCHANGED << pipelineVars, searchVars >>

\* slack_service.py 147-184, called with any blocks under any thread.
PostBlocksInThreadCall ==
    /\ gatewayCallsLeft > 0
    /\ gatewayCallsLeft' = gatewayCallsLeft - 1
    /\ \E channel_id \in Channels, thread_ts \in ThreadKeys,
          bs \in { <<>>, << SectionBlock(<<"Db", "Help">>) >> },
          first \in PostReplies, join \in RetryReplies, retry \in RetryReplies :
          LET res == post_blocks_in_thread(channel_id, thread_ts, bs, first, join, retry)
          IN  gwCall' = [op |-> "post_blocks_in_thread", channel_id |-> channel_id,
                         thread_ts |-> thread_ts, blocks |-> bs,
                         calls |-> res.calls, error |-> res.error]
    /\ UNCHANGED << slackMsgs, anchorPc, anchorWeek, anchorFound, anchorCalls,
                    anchorResult, overlapped, searchMissed >>
    /\ UNCHANGED << pipelineVars, searchVars >>

\* slack_service.py 198-224: a caller searches for the anchor of a week and
\* returns the first match that qualifies.
AnchorSearch(p) ==
    /\ anchorPc[p] \in {"idle", "returned", "raised"}
    /\ gatewayCallsLeft > 0
    /\ gatewayCallsLeft' = gatewayCallsLeft - 1
    /\ \E week \in Weeks, found \in AnchorSearchOutcomes(slackMsgs) :
          LET date_str == strftime(week)
              ts == FirstAnchor(found, slack_channel_id, date_str)
              there == \E i \in DOMAIN slackMsgs :
                           Qualifies(slackMsgs[i], slack_channel_id, date_str)
              seen == /\ found.kind = "dict"
                      /\ \E i \in DOMAIN found.matches :
                             Qualifies(found.matches[i], slack_channel_id, date_str)
          IN  /\ anchorWeek' = [anchorWeek EXCEPT ![p] = week]
              /\ anchorFound' = [anchorFound EXCEPT ![p] = found]
              /\ anchorCalls' = [anchorCalls EXCEPT ![p] = <<>>]
              /\ anchorResult' = [anchorResult EXCEPT ![p] = ts]
              /\ anchorPc' = [anchorPc EXCEPT ![p] = AfterAnchorSearch(found, ts)]
              /\ searchMissed' = (searchMissed \/ (there /\ ~seen))
    /\ overlapped' = (overlapped \/ \E q \in Callers \ {p} : anchorPc[q] = "creating")
    /\ UNCHANGED << gwCall, slackMsgs >>
    /\ UNCHANGED << pipelineVars, searchVars >>

\* Posted keeping one message per text in a channel.
PostedOncePerText(msgs, calls, sent) ==
    IF /\ Delivered(calls) # {}
       /\ \A i \in DOMAIN msgs :
              msgs[i].text # sent.text \/ msgs[i].channel # sent.channel
    THEN Append(msgs, sent)
    ELSE msgs

\* slack_service.py 238-253: a delivered chat.postMessage adds the message
\* to the channel, whatever the channel holds by then.
Posted(msgs, calls, sent) ==
    IF Delivered(calls) # {} THEN Append(msgs, sent) ELSE msgs

\* slack_service.py 226-265: the caller posts the header-only anchor, with
\* one join and one retry when it is not in the channel, and returns the ts
\* of the response.
AnchorPost(p) ==
    /\ anchorPc[p] = "creating"
    /\ \E first \in PostReplies, join \in RetryReplies, retry \in RetryReplies,
          has_ts \in BOOLEAN :
          LET date_str == strftime(anchorWeek[p])
              res == PostWithJoin(slack_channel_id, AnchorBlocks(date_str),
                                  first, join, retry, "Slack post failed")
              message_ts == IF has_ts THEN Str(Len(slackMsgs) + 1) ELSE None
              sent == Msg([kind |-> "dict", id |-> Str(slack_channel_id)],
                          Str(Len(slackMsgs) + 1), WeeklyTag(date_str),
                          AnchorBlocks(date_str), "bot")
          IN  /\ anchorCalls' = [anchorCalls EXCEPT ![p] = res.calls]
              /\ slackMsgs' = Posted(slackMsgs, res.calls, sent)
              /\ IF res.error # NoError
                 THEN /\ anchorPc' = [anchorPc EXCEPT ![p] = "raised"]
                      /\ anchorResult' = [anchorResult EXCEPT ![p] = Raised(res.error)]
                 ELSE IF message_ts.kind # "str"
                 THEN /\ anchorPc' = [anchorPc EXCEPT ![p] = "raised"]
                      /\ anchorResult' =
                             [anchorResult EXCEPT
                                 ![p] = Raised(Err("Failed to get thread timestamp", ""))]
                 ELSE /\ anchorPc' = [anchorPc EXCEPT ![p] = "returned"]
                      /\ anchorResult' = [anchorResult EXCEPT ![p] = message_ts]
    /\ UNCHANGED << gwCall, anchorWeek, anchorFound, gatewayCallsLeft, overlapped,
                    searchMissed >>
    /\ UNCHANGED << pipelineVars, searchVars >>

\* The gateway called on a workspace, with no pipeline run under way.
InitGatewayCalls ==
    /\ InitPipeline({ Start(ViaMain(FALSE, FALSE), Settings(FALSE, 1), EmptyCache) }, 0,
                    { NoNames })
    /\ InitGateway(Workspaces, MaxGatewayCalls)
    /\ InitSearch({ NoBots })

NextPosting ==
    \/ PostBlocksCall
    \/ PostBlocksInThreadCall

\* Calls of post_blocks and post_blocks_in_thread.
SpecPosting == InitGatewayCalls /\ [][NextPosting]_vars

NextAnchor ==
    \/ \E p \in Callers : AnchorSearch(p)
    \/ \E p \in Callers : AnchorPost(p)

\* Calls of get_or_create_weekly_thread by two processes.
SpecAnchor == InitGatewayCalls /\ [][NextAnchor]_vars

(***************************************************************************)
(* slack_service.py: search_messages, one call                             *)
(***************************************************************************)

\* The largest limit a call is given.
MaxLimit == 2

\* slack_service.py 26
max_pages == 20

\* slack_service.py 27
per_page == 100

\* What Redis may hold for the bots before the call.
BotCaches ==
    { [u \in UserIds |-> e] :
          e \in { NoEntry,
                  json_dumps([kind |-> "dict", is_bot |-> Bool(FALSE)]),
                  json_dumps([kind |-> "dict", is_bot |-> Bool(TRUE)]) } }

\* The matches of one page: none, any one record, or any record followed by
\* a record without a user or by a bot message.
PageMatches ==
    { <<>> } \cup { << h >> : h \in Hits }
    \cup { << h, g >> : h \in Hits,
                        g \in { Hit(None, None, None, None, None, None),
                                Hit(Str("bot_message"), None, None, None, Str("U1"), None) } }

\* The paging a response may carry for a page: none, this page as the last
\* one, or one page more than this one, however many were asked for.
Pagings(page) ==
    { [kind |-> "dict"],
      [kind |-> "dict", pages |-> page],
      [kind |-> "dict", pages |-> page + 1] }

\* slack_service.py 31-36: search.messages answers a page.
SearchResponses(page) ==
    { [kind |-> "dict", matches |-> ms, paging |-> pg] :
          ms \in PageMatches, pg \in Pagings(page) }

\* slack_service.py 43-44
TotalPages(response) ==
    IF "pages" \in DOMAIN response.paging THEN response.paging.pages ELSE 1

\* slack_service.py 30: the condition of the loop.
LoopGoesOn(page, all_matches, limit) ==
    page <= max_pages /\ Len(all_matches) < limit

\* all_matches[:limit], for a limit that is not negative.
UpTo(all_matches, limit) ==
    SubSeq(all_matches, 1, IF Len(all_matches) < limit THEN Len(all_matches) ELSE limit)

\* OnSearchError handing back what the earlier pages gave.
OnSearchErrorReturnPartial(all_matches, limit) == JList(UpTo(all_matches, limit))

\* slack_service.py 48-49: a SlackApiError of a page ends the call.
OnSearchError(all_matches, limit) == SearchFailed

\* AfterPage without the cap on the pages.
AfterPageUncapped(page, total_pages, all_matches, limit) ==
    IF page < total_pages /\ Len(all_matches) < limit
    THEN [pc |-> "request", page |-> page + 1, result |-> None]
    ELSE [pc |-> "returned",
          page |-> IF page >= total_pages THEN page ELSE page + 1,
          result |-> JList(UpTo(all_matches, limit))]

\* slack_service.py 45-47, 30 and 52: after a page either the loop asks
\* for the next one or the call returns.
AfterPage(page, total_pages, all_matches, limit) ==
    IF page >= total_pages
    THEN [pc |-> "returned", page |-> page, result |-> JList(UpTo(all_matches, limit))]
    ELSE IF LoopGoesOn(page + 1, all_matches, limit)
    THEN [pc |-> "request", page |-> page + 1, result |-> None]
    ELSE [pc |-> "returned", page |-> page + 1,
          result |-> JList(UpTo(all_matches, limit))]

\* slack_service.py 23-30: the call starts.
SearchBegin ==
    /\ srchPc = "idle"
    /\ \E limit \in 0..MaxLimit :
          /\ srchLimit' = limit
          /\ IF LoopGoesOn(1, <<>>, limit)
             THEN srchPc' = "request" /\ srchResult' = None
             ELSE srchPc' = "returned" /\ srchResult' = JList(UpTo(<<>>, limit))
    /\ lookupCall' = NoLookup
    /\ UNCHANGED << srchPage, srchAll, srchPending, srchPages, srchRequests,
                    botCache >>
    /\ UNCHANGED << pipelineVars, gatewayVars >>

\* slack_service.py 31-38 and 48-49: one request of a page.
SearchRequest ==
    /\ srchPc = "request"
    /\ srchRequests' = Append(srchRequests, [page |-> srchPage, count |-> per_page])
    /\ \E response \in {SearchFailed} \cup SearchResponses(srchPage) :
          IF response.kind = "raised"
          THEN /\ srchPc' = "raised"
               /\ srchResult' = OnSearchError(srchAll, srchLimit)
               /\ UNCHANGED << srchPage, srchPending, srchPages >>
          ELSE IF response.matches # <<>>
          THEN /\ srchPc' = "filter"
               /\ srchPending' = response.matches
               /\ srchPages' = TotalPages(response)
               /\ UNCHANGED << srchPage, srchResult >>
          ELSE LET next == AfterPage(srchPage, TotalPages(response), srchAll, srchLimit)
               IN  /\ srchPc' = next.pc
                   /\ srchPage' = next.page
                   /\ srchResult' = next.result
                   /\ srchPages' = TotalPages(response)
                   /\ UNCHANGED srchPending
    /\ UNCHANGED << srchLimit, srchAll, botCache, lookupCall >>
    /\ UNCHANGED << pipelineVars, gatewayVars >>

\* slack_service.py 39-40: the next match of the page goes through
\* _is_human_message; after the last one the page is done.
SearchFilter ==
    /\ srchPc = "filter"
    /\ \E lookup \in BotLookups :
          LET res == is_human_message(Head(srchPending), botCache, lookup)
              all_matches == IF res.human THEN Append(srchAll, Head(srchPending))
                             ELSE srchAll
          IN  /\ botCache' = res.bcache
              /\ srchAll' = all_matches
              /\ srchPending' = Tail(srchPending)
              /\ IF Tail(srchPending) # <<>>
                 THEN UNCHANGED << srchPc, srchPage, srchResult >>
                 ELSE LET next == AfterPage(srchPage, srchPages, all_matches, srchLimit)
                      IN  /\ srchPc' = next.pc
                          /\ srchPage' = next.page
                          /\ srchResult' = next.result
    /\ UNCHANGED << srchLimit, srchPages, srchRequests, lookupCall >>
    /\ UNCHANGED << pipelineVars, gatewayVars >>

\* slack_service.py 54-78, called on one record before the search; the
\* state keeps the last call only.
IsHumanMessageCall ==
    /\ srchPc = "idle"
    /\ \E match \in Hits, lookup \in BotLookups :
          LET res == is_human_message(match, botCache, lookup)
          IN  /\ botCache' = res.bcache
              /\ lookupCall' = [fn |-> "_is_human_message", match |-> match,
                                result |-> res.human]
    /\ UNCHANGED << srchPc, srchLimit, srchPage, srchAll, srchPending, srchPages,
                    srchRequests, srchResult >>
    /\ UNCHANGED << pipelineVars, gatewayVars >>

NextSearch ==
    \/ SearchBegin
    \/ SearchRequest
    \/ SearchFilter
    \/ IsHumanMessageCall

InitSearchCall ==
    /\ InitPipeline({ Start(ViaMain(FALSE, FALSE), Settings(FALSE, 1), EmptyCache) }, 0,
                    { NoNames })
    /\ InitGateway({ <<>> }, 0)
    /\ InitSearch(BotCaches)

\* One call of search_messages.
SpecSearch == InitSearchCall /\ [][NextSearch]_vars

(***************************************************************************)
(* slack_service.py: resolve_user_name and _is_bot_user, called in turn    *)
(***************************************************************************)

\* What Redis may hold under user:{id}: nothing, text that is not JSON, a
\* name, or a document without a name.
UserEntries ==
    { NoEntry, Garbage,
      json_dumps([kind |-> "dict", name |-> "Ann"]),
      json_dumps([kind |-> "dict", id |-> "U1"]) }

\* What Redis may hold under user_is_bot:{id}: nothing, text that is not
\* JSON, the mark, or a document whose mark is not a boolean.
BotEntries ==
    { NoEntry, Garbage,
      json_dumps([kind |-> "dict", is_bot |-> Bool(FALSE)]),
      json_dumps([kind |-> "dict", is_bot |-> Bool(TRUE)]),
      json_dumps([kind |-> "dict", is_bot |-> Str("yes")]) }

\* A call, what Redis held for the user before and after it, whether and
\* how users.info answered, and what the call returned.
LookupCall(fn, user_id, before, after, asked, lookup, result) ==
    [fn |-> fn, user_id |-> user_id, before |-> before, after |-> after,
     asked |-> asked, lookup |-> IF asked THEN lookup ELSE "none",
     result |-> result]

\* slack_service.py 267-281
ResolveUserNameCall ==
    /\ \E user_id \in UserIds, lookup \in UserLookups \cup {"nameless"} :
          LET res == resolve_user_name(userCache, user_id, lookup)
          IN  /\ userCache' = res.ucache
              /\ lookupCall' = LookupCall("resolve_user_name", user_id,
                                          userCache[user_id], res.ucache[user_id],
                                          res.asked, lookup, res.name)
    /\ UNCHANGED << settings, invocation, runsLeft, cache, expired, pc, mode,
                    effective_dry_run, cutoff, matches, idx, threads, fetched,
                    enriched, blocks, cacheConn, error, postAttempts, joinCalls,
                    posted, summarizeCalls, prevEnriched, prevSummarizeCalls >>
    /\ UNCHANGED gatewayVars
    /\ UNCHANGED << srchPc, srchLimit, srchPage, srchAll, srchPending, srchPages,
                    srchRequests, srchResult, botCache >>

\* slack_service.py 80-94
IsBotUserCall ==
    /\ \E user_id \in UserIds, lookup \in BotLookups :
          LET res == is_bot_user(botCache, user_id, lookup)
          IN  /\ botCache' = res.bcache
              /\ lookupCall' = LookupCall("_is_bot_user", user_id,
                                          botCache[user_id], res.bcache[user_id],
                                          res.asked, lookup, res.is_bot)
    /\ UNCHANGED pipelineVars
    /\ UNCHANGED gatewayVars
    /\ UNCHANGED << srchPc, srchLimit, srchPage, srchAll, srchPending, srchPages,
                    srchRequests, srchResult >>

NextLookups ==
    \/ ResolveUserNameCall
    \/ IsBotUserCall

InitLookups ==
    /\ InitPipeline({ Start(ViaMain(FALSE, FALSE), Settings(FALSE, 1), EmptyCache) }, 0,
                    { [u \in UserIds |-> e] : e \in UserEntries })
    /\ InitGateway({ <<>> }, 0)
    /\ InitSearch({ [u \in UserIds |-> e] : e \in BotEntries })

\* Calls of resolve_user_name and _is_bot_user over one Redis.
SpecLookups == InitLookups /\ [][NextLookups]_vars

(***************************************************************************)
(* runner.py: build_thread_text, called once                               *)
(***************************************************************************)

MaxThreadLen == 3

\* The messages a thread is made of: two of user U1 and one without a user.
TextMessages ==
    { Message("U1", <<"db", "is", "down">>),
      Message("U1", <<"fixed">>),
      AnonMessage(<<"restarted">>) }

\* The threads of at most MaxThreadLen messages.
TextThreads == UNION { [1..n -> TextMessages] : n \in 0..MaxThreadLen }

\* runner.py 14-29 called with slack.resolve_user_name, as at runner.py 147.
BuildThreadTextCall ==
    /\ lookupCall = NoLookup
    /\ \E messages \in TextThreads :
       \E lookups \in [1..Len(messages) -> UserLookups] :
          LET text == build_thread_text(messages, userCache, lookups)
          IN  /\ userCache' = text.ucache
              /\ lookupCall' = [fn |-> "build_thread_text",
                                messages |-> messages,
                                lookups |-> lookups,
                                before |-> userCache,
                                lines |-> text.lines,
                                participants |-> text.participants]
    /\ UNCHANGED << settings, invocation, runsLeft, cache, expired, pc, mode,
                    effective_dry_run, cutoff, matches, idx, threads, fetched,
                    enriched, blocks, cacheConn, error, postAttempts, joinCalls,
                    posted, summarizeCalls, prevEnriched, prevSummarizeCalls >>
    /\ UNCHANGED << gatewayVars >>
    /\ UNCHANGED << srchPc, srchLimit, srchPage, srchAll, srchPending, srchPages,
                    srchRequests, srchResult, botCache >>

NextThreadText == BuildThreadTextCall

InitThreadText ==
    /\ InitPipeline({ Start(ViaMain(FALSE, FALSE), Settings(FALSE, 1), EmptyCache) }, 0,
                    { [u \in UserIds |-> e] : e \in UserEntries })
    /\ InitGateway({ <<>> }, 0)
    /\ InitSearch({ NoBots })

\* One call of build_thread_text over a Redis that holds any user entry.
SpecThreadText == InitThreadText /\ [][NextThreadText]_vars

(***************************************************************************)
(* Properties of run_pipeline                                              *)
(***************************************************************************)

\* The positions of a log that are about thread t.
About(log, t) == {i \in DOMAIN log : log[i].thread_ts = t}

\* The positions of a log at which the summarizer was invoked for thread t.
Summarized(log, t) == {i \in About(log, t) : ~log[i].hit}

\* C1: a thread enriched in two successive window-mode runs, its
\* thread-summary entry not expired, gets the same Summary Block Set in both
\* runs, and the summarizer is invoked for it at most once over the two runs.
C1_IdempotentOverTwoRuns ==
    \A t \in ThreadKeys :
        (/\ mode = "window"
         /\ t \notin expired
         /\ About(prevEnriched, t) # {}
         /\ About(enriched, t) # {})
        => /\ \A i \in About(prevEnriched, t), j \in About(enriched, t) :
                  prevEnriched[i].summary_blocks = enriched[j].summary_blocks
           /\ Cardinality(Summarized(prevEnriched, t))
                  + Cardinality(Summarized(enriched, t)) <= 1

\* C2: every terminated run of run_pipeline has closed the cache
\* connection it opened, whichever way it ended.
C2_CacheClosedWhenRunEnds ==
    (Terminated /\ cacheConn # "none") => cacheConn = "closed"

\* Dry run as the flags and the DRY_RUN setting ask for it.
DryRunInEffect ==
    IF invocation.via = "main"
    THEN \/ invocation.flag_dry_run
         \/ settings.dry_run /\ ~invocation.flag_no_dry_run
    ELSE \/ invocation.dry_run = "True"
         \/ invocation.dry_run = "None" /\ settings.dry_run

\* C3: a run with dry run in effect makes no chat.postMessage call, and a
\* completed run without it has posted.
C3_DryRunNeverPosts ==
    /\ (cacheConn # "none" /\ DryRunInEffect) => postAttempts = 0
    /\ (pc = "done" /\ ~DryRunInEffect) => posted # <<>>

\* Whether every thread the run summarized is placeholder-only.
OnlyPlaceholders ==
    \A i \in DOMAIN enriched : is_placeholder_thread(enriched[i].summary_blocks)

\* C5: a completed run that found no thread, or only threads with a
\* placeholder summary, has posted one message of exactly one block, the
\* fixed "no threads found" section.
C5_EmptyDigestIsTheFixedBlock ==
    (pc = "done" /\ OnlyPlaceholders) => posted = << << NoThreadsBlock >> >>

\* C5's case: a completed run all of whose threads were placeholder-only.
C5_Witness ==
    /\ pc = "done"
    /\ enriched # <<>>
    /\ OnlyPlaceholders
    /\ posted = << << NoThreadsBlock >> >>

\* The text of a block as Slack shows it, letter case kept.
ShownText(block) ==
    IF block.type \in {"header", "section"} THEN block.text.text
    ELSE IF block.type = "context"
    THEN LET RECURSIVE Joined(_)
             Joined(es) == IF es = <<>> THEN <<>>
                           ELSE Head(es).text \o Joined(Tail(es))
         IN  Joined(block.elements)
    ELSE <<>>

RECURSIVE ConcatenatedText(_)
ConcatenatedText(items) ==
    IF items = <<>> THEN <<>>
    ELSE ShownText(Head(items)) \o ConcatenatedText(Tail(items))

\* A placeholder phrase occurs in the concatenated text, in any letter case.
HasPlaceholderPhrase(summary) ==
    \E p \in DOMAIN placeholder_patterns :
        Contains(placeholder_patterns[p], Lower(ConcatenatedText(summary.items)))

\* What the threads of a log add to the digest, in the order of the log.
RECURSIVE ExpectedDigest(_)
ExpectedDigest(log) ==
    IF log = <<>> THEN <<>>
    ELSE LET e == Head(log)
             part == IF HasPlaceholderPhrase(e.summary_blocks) THEN <<>>
                     ELSE e.summary_blocks.items
                          \o (IF e.permalink.kind = "str"
                              THEN << ViewThreadBlock(e.permalink.val) >> ELSE <<>>)
                          \o << DividerBlock >>
         IN  part \o ExpectedDigest(Tail(log))

\* C6: a thread whose summary text holds a placeholder phrase adds no block
\* to the digest; every other thread adds its summary blocks, then the
\* "View thread" link if and only if its permalink was resolved, then one
\* divider.
C6_PlaceholderThreadsAddNothing ==
    /\ pc \in {"enrich", "post"} => blocks = ExpectedDigest(enriched)
    /\ (posted # <<>> /\ ExpectedDigest(enriched) # <<>>)
           => posted = << ExpectedDigest(enriched) >>

\* C6's case: a posted digest of a placeholder thread and of a thread with
\* a resolved permalink.
C6_Witness ==
    /\ pc = "done"
    /\ Len(enriched) = 2
    /\ HasPlaceholderPhrase(enriched[1].summary_blocks)
    /\ ~HasPlaceholderPhrase(enriched[2].summary_blocks)
    /\ enriched[2].summary_blocks.items # <<>>
    /\ enriched[2].permalink.kind = "str"
    /\ posted = << enriched[2].summary_blocks.items
                   \o << ViewThreadBlock(enriched[2].permalink.val), DividerBlock >> >>

\* C7: window mode keeps no thread of fewer than 2 messages; permalink mode
\* keeps the thread it fetched whenever it has a message, and the thread
\* goes through the rest of the run.
C7_MinimumEngagementByMode ==
    /\ mode = "window" => \A i \in DOMAIN threads : Len(threads[i].messages) >= 2
    /\ (mode = "permalink" /\ fetched.kind = "list" /\ Len(fetched.items) >= 1)
           => /\ pc = "truncate"
              /\ Len(threads) = 1
              /\ threads[1].messages = fetched.items
    /\ (mode = "permalink" /\ pc \in {"enrich", "post", "done"}) => Len(threads) = 1
    /\ (mode = "permalink" /\ pc = "done")
           => /\ Len(enriched) = 1
              /\ enriched[1].thread_ts = threads[1].thread_ts

\* C7's case: a permalink run of a thread of one message, summarized and
\* posted.
C7_Witness ==
    /\ mode = "permalink"
    /\ pc = "done"
    /\ Len(threads) = 1
    /\ Len(threads[1].messages) = 1
    /\ Len(enriched) = 1
    /\ posted = << enriched[1].summary_blocks.items \o << DividerBlock >> >>

\* now - lookback_days, in seconds.
WindowStartSecs == NowSecs - lookback_days * SecondsPerDay

\* A timestamp at or after the start of the run window.
InRunWindow(ts) == DigitsVal(ts.whole) >= WindowStartSecs

\* The root timestamp a match names: its thread_ts, and its own ts only
\* when it carries no thread_ts.
RootOf(item) == IF item.thread_ts.kind = "none" THEN item.ts ELSE item.thread_ts

\* C8: in window mode every kept thread has its root timestamp in the run
\* window and is the thread a match names by its root; in permalink mode
\* the thread of the permalink is kept whatever its age.
C8_RunWindowOnThreadRoot ==
    /\ mode = "window" => \A i \in DOMAIN threads : InRunWindow(threads[i].thread_ts)
    /\ (mode = "window" /\ pc \in {"discover", "truncate"})
           => \A i \in DOMAIN threads :
                  \E j \in DOMAIN matches :
                      /\ j < idx
                      /\ RootOf(matches[j]) = threads[i].thread_ts
    /\ (mode = "permalink" /\ pc \in {"truncate", "enrich", "post", "done"})
           => /\ Len(threads) = 1
              /\ threads[1].thread_ts = parse_permalink(invocation.permalink).message_ts

\* C8's case: a match inside the window whose thread root is outside was
\* dropped while a later one was kept.
C8_Witness ==
    /\ mode = "window"
    /\ pc = "truncate"
    /\ Len(matches) = 2
    /\ matches[1].thread_ts = TsOld
    /\ InRunWindow(matches[1].ts)
    /\ Len(threads) = 1
    /\ threads[1].thread_ts = TsB

\* The aborts of discovery.
DiscoveryErrors ==
    {"Invalid permalink format", "No messages found for permalink",
     "Slack search failed", "Slack thread fetch failed"}

\* C9: a run aborted by an invalid permalink, an empty thread or a failed
\* search or fetch has made no post, and a post is only made once every
\* candidate has been discovered and enriched.
C9_NoPostBeforeAbort ==
    /\ (pc = "raised" /\ error.msg \in DiscoveryErrors)
           => postAttempts = 0 /\ posted = <<>>
    /\ postAttempts > 0
           => /\ pc \in {"done", "raised"}
              /\ matches = <<>>
              /\ Len(enriched) = Len(threads)

\* C9's case: a fetch failed after an earlier thread had been kept.
C9_Witness ==
    /\ pc = "raised"
    /\ error.msg = "Slack thread fetch failed"
    /\ threads # <<>>
    /\ postAttempts = 0


(***************************************************************************)
(* C4 and C10: the gateway                                                 *)
(***************************************************************************)

\* The last call of post_blocks or post_blocks_in_thread, if any.
Called == gwCall.op \in {"post_blocks", "post_blocks_in_thread"}

AskedDate(p) == strftime(anchorWeek[p])

\* The message is in the digest channel and its text contains the tag of
\* the week the caller asks for.
IsAnchorFor(p, msg) ==
    /\ \E i \in 0..(Len(msg.text) - 4) :
           SubSeq(msg.text, i + 1, i + 4)
               = <<"Firefighter", "weekly", "summary", AskedDate(p)>>
    /\ \/ msg.channel = [kind |-> "dict", id |-> Str(slack_channel_id)]
       \/ msg.channel = Str(slack_channel_id)

\* The messages the caller's search returned; none when the search failed.
Returned(p) == IF anchorFound[p].kind = "dict" THEN anchorFound[p].matches ELSE <<>>

\* The positions of the caller's search result that hold such a message.
AnchorsReturned(p) == { i \in DOMAIN Returned(p) : IsAnchorFor(p, Returned(p)[i]) }

\* The header-only anchors get_or_create_weekly_thread has posted for a date.
AnchorsPosted(date_str) ==
    { i \in DOMAIN slackMsgs :
          /\ slackMsgs[i].by = "bot"
          /\ slackMsgs[i].text = <<"Firefighter", "weekly", "summary", date_str>> }

\* C10: weekly anchor get-or-create. A call that returns after its search
\* returned a message of the target channel whose text contains the week's
\* tag returns the timestamp of the first such message and posts nothing.
\* A call that returns after a search without such a message has posted
\* exactly one new header-only anchor and returns its timestamp; a call that
\* raises has posted at most one. Consequently, as long as calls do not
\* overlap and every search sees the earlier anchors, there is at most one
\* anchor per week in the channel.
C10_AnchorGetOrCreate ==
    /\ \A p \in Callers :
          /\ (anchorPc[p] = "returned" /\ AnchorsReturned(p) # {}) =>
                 /\ anchorCalls[p] = <<>>
                 /\ LET first == CHOOSE i \in AnchorsReturned(p) :
                                     \A j \in AnchorsReturned(p) : i <= j
                    IN  anchorResult[p] = Returned(p)[first].ts
          /\ (anchorPc[p] = "returned" /\ AnchorsReturned(p) = {}) =>
                 /\ Cardinality(Delivered(anchorCalls[p])) = 1
                 /\ \E i \in AnchorsPosted(AskedDate(p)) :
                        /\ slackMsgs[i].ts = anchorResult[p]
                        /\ slackMsgs[i].channel.id.val = slack_channel_id
                        /\ Len(slackMsgs[i].blocks) = 1
                        /\ slackMsgs[i].blocks[1].type = "header"
                 /\ \A i \in DOMAIN Returned(p) : Returned(p)[i].ts # anchorResult[p]
          /\ (anchorPc[p] \in {"creating", "raised"}) =>
                 /\ AnchorsReturned(p) = {}
                 /\ Cardinality(Delivered(anchorCalls[p])) <= 1
    /\ (~overlapped /\ ~searchMissed) =>
           \A week \in Weeks : Cardinality(AnchorsPosted(strftime(week))) <= 1

\* One caller created the anchor of a week and the other, asking for the
\* same week later, got the timestamp of that anchor from its search.
C10_Witness ==
    /\ anchorPc["run1"] = "returned"
    /\ anchorPc["run2"] = "returned"
    /\ anchorWeek["run1"] = anchorWeek["run2"]
    /\ Cardinality(Delivered(anchorCalls["run1"])) = 1
    /\ anchorCalls["run2"] = <<>>
    /\ anchorResult["run2"] = anchorResult["run1"]
    /\ ~overlapped
    /\ ~searchMissed


(***************************************************************************)
(* C11: the race on the weekly anchor                                      *)
(***************************************************************************)

\* C11: weekly-anchor race. The lookup-or-create is not atomic: a caller
\* that found no anchor in its search posts one without looking again, so
\* every such post that returns adds one more anchor for its week to the
\* channel, whatever another caller has posted since the search, and
\* returns the ts of the message it added.
C11_PostDoesNotLookAgain ==
    [][\A p \in Callers :
           (anchorPc[p] = "creating" /\ anchorPc'[p] = "returned") =>
               /\ Len(slackMsgs') = Len(slackMsgs) + 1
               /\ slackMsgs'[Len(slackMsgs')].by = "bot"
               /\ slackMsgs'[Len(slackMsgs')].text
                      = <<"Firefighter", "weekly", "summary", AskedDate(p)>>
               /\ slackMsgs'[Len(slackMsgs')].ts = anchorResult'[p]]_vars

\* Two callers asked for the same week with their searches before either
\* post; no search failed or left an anchor out, both posts were delivered,
\* and the channel holds two anchors for the week.
C11_Witness ==
    /\ overlapped
    /\ ~searchMissed
    /\ anchorWeek["run1"] = anchorWeek["run2"]
    /\ anchorPc["run1"] = "returned"
    /\ anchorPc["run2"] = "returned"
    /\ anchorResult["run1"] # anchorResult["run2"]
    /\ Cardinality(AnchorsPosted(AskedDate("run1"))) = 2


(***************************************************************************)
(* C12 and C13: search_messages                                            *)
(***************************************************************************)

\* The records search_messages returned; none when it raised or has not
\* returned.
ReturnedRecords == IF srchResult.kind = "list" THEN srchResult.items ELSE <<>>

\* C12: pagination bound of search_messages. The pages are requested in
\* the order 1, 2, ..., never more than 20 of them; a page is only
\* requested while fewer than limit records are accumulated and the page
\* before it, if any, reported further pages; the call returns the first
\* limit records accumulated, all of them when they are fewer than limit.
C12_PaginationBound ==
    /\ [](/\ \A i \in DOMAIN srchRequests : srchRequests[i].page = i
          /\ Len(srchRequests) <= 20
          /\ (srchPc = "request") =>
                 /\ Len(srchAll) < srchLimit
                 /\ srchPage = Len(srchRequests) + 1
          /\ (srchPc = "returned") =>
                 /\ srchResult.kind = "list"
                 /\ Len(ReturnedRecords) <= srchLimit
                 /\ (Len(srchAll) >= srchLimit) => (Len(ReturnedRecords) = srchLimit)
                 /\ (Len(srchAll) < srchLimit) => (ReturnedRecords = srchAll)
                 /\ \A k \in DOMAIN ReturnedRecords : ReturnedRecords[k] = srchAll[k]
                 /\ \/ Len(srchAll) >= srchLimit
                    \/ Len(srchRequests) = 20
                    \/ srchPages <= Len(srchRequests))
    /\ [][(srchRequests' # srchRequests) =>
              /\ srchRequests' = Append(srchRequests, srchRequests'[Len(srchRequests')])
              /\ Len(srchAll) < srchLimit
              /\ (srchRequests # <<>>) => (srchPages > Len(srchRequests))]_vars

\* The platform reported further pages after every page; the twentieth page
\* took the accumulated records past the limit, and the call returned
\* limit of them.
C12_Witness ==
    /\ srchPc = "returned"
    /\ Len(srchRequests) = 20
    /\ srchPages > 20
    /\ Len(srchAll) = srchLimit + 1
    /\ Len(ReturnedRecords) = srchLimit
    /\ srchLimit > 0


\* C13: search_messages is all-or-nothing on failure. When the request of
\* a page fails, on the first page or on a later one, the call ends with an
\* error that carries none of the records accumulated so far; the failed
\* page was requested once, it is the last request made, and nothing is
\* requested after it.
C13_SearchAllOrNothing ==
    /\ [](/\ (srchPc = "raised") =>
                 /\ srchResult.kind = "raised"
                 /\ DOMAIN srchResult = {"kind"}
                 /\ srchRequests # <<>>
                 /\ \A i \in DOMAIN srchRequests : srchRequests[i].page = i
          /\ (srchResult.kind = "raised") => (srchPc = "raised"))
    /\ [][(srchPc = "raised") =>
              (srchRequests' = srchRequests /\ srchResult' = srchResult)]_vars

\* The first page succeeded and gave records that were kept; the request
\* of the second page failed.
C13_Witness ==
    /\ srchPc = "raised"
    /\ Len(srchRequests) = 2
    /\ srchAll # <<>>
    /\ srchResult.kind = "raised"


(***************************************************************************)
(* C14: user lookups                                                       *)
(***************************************************************************)

\* The last call asked users.info and got an error or a response without
\* a user.
LookupFailed ==
    /\ lookupCall.fn \in {"resolve_user_name", "_is_bot_user"}
    /\ lookupCall.lookup \in {"error", "no_user"}

\* C14: user lookups fail open. When users.info fails, resolve_user_name
\* returns the raw user id and _is_bot_user returns "not a bot"; Redis
\* holds for the user what it held before the call, and the next call of
\* the same function for that user asks users.info again.
C14_LookupsFailOpen ==
    /\ [](LookupFailed =>
              /\ lookupCall.after = lookupCall.before
              /\ (lookupCall.fn = "resolve_user_name") =>
                     /\ lookupCall.result = lookupCall.user_id
                     /\ userCache[lookupCall.user_id] = lookupCall.before
              /\ (lookupCall.fn = "_is_bot_user") =>
                     /\ lookupCall.result = FALSE
                     /\ botCache[lookupCall.user_id] = lookupCall.before)
    /\ [][(/\ LookupFailed
           /\ lookupCall' # lookupCall
           /\ lookupCall'.fn = lookupCall.fn
           /\ lookupCall'.user_id = lookupCall.user_id) => lookupCall'.asked]_vars

\* users.info failed with a SlackApiError for a user Redis had no name
\* for; resolve_user_name returned the raw id and stored nothing.
C14_Witness ==
    /\ lookupCall.fn = "resolve_user_name"
    /\ lookupCall.asked
    /\ lookupCall.lookup = "error"
    /\ lookupCall.result = lookupCall.user_id
    /\ lookupCall.before = NoEntry
    /\ userCache[lookupCall.user_id] = NoEntry


(***************************************************************************)
(* C15: the human-message filter                                           *)
(***************************************************************************)

\* The field of a record, when it is a string that is not empty.
Carries(match, field) == match[field].kind = "str" /\ match[field].val # ""

\* The profile name of a record: the first of display_name_normalized,
\* real_name_normalized and name that is not empty.
ProfileName(match) ==
    LET profile == match.user_profile
    IN  IF profile.kind # "dict" THEN ""
        ELSE IF Carries(profile, "display_name_normalized")
        THEN profile.display_name_normalized.val
        ELSE IF Carries(profile, "real_name_normalized")
        THEN profile.real_name_normalized.val
        ELSE IF Carries(profile, "name") THEN profile.name.val
        ELSE ""

\* An exclusion condition holds for the record, with bots as the cache of
\* bot marks after the record went through the filter.
ExclusionHolds(match, bots) ==
    \/ Carries(match, "subtype")
           /\ match.subtype.val \in {"bot_message", "slackbot_response", "app_message"}
    \/ Carries(match, "bot_id")
    \/ Carries(match, "app_id")
    \/ Carries(match, "username") /\ ~Carries(match, "user")
    \/ Carries(match, "user")
           /\ match.user.val \in {"USLACKBOT", "uslackbot", "USlackbot"}
    \/ /\ Carries(match, "user")
       /\ match.user.val \in UserIds
       /\ bots[match.user.val] = json_dumps([kind |-> "dict", is_bot |-> Bool(TRUE)])
    \/ /\ match.user_profile.kind = "dict"
       /\ match.user_profile.is_bot = Bool(TRUE)
    \/ ProfileName(match) \in {"slackbot", "Slackbot", "SLACKBOT"}

\* C15: human-message filter. _is_human_message keeps a record exactly
\* when no exclusion condition holds for it; search_messages drops every
\* record of a page for which one holds and accumulates every other record,
\* so no record for which one held is among the records it returns.
C15_HumanFilter ==
    /\ []((lookupCall.fn = "_is_human_message") =>
              (lookupCall.result <=> ~ExclusionHolds(lookupCall.match, botCache)))
    /\ [][(srchPc = "filter") =>
              LET match == Head(srchPending)
              IN  IF ExclusionHolds(match, botCache')
                  THEN srchAll' = srchAll
                  ELSE srchAll' = Append(srchAll, match)]_vars
    /\ [](\A i \in DOMAIN ReturnedRecords :
              /\ ReturnedRecords[i] = srchAll[i]
              /\ ReturnedRecords[i] \in HumanHits)

\* The filter turned down a record that carries nothing but the id of user
\* U1, whom the bot mark held after the call says to be a bot.
C15_Witness ==
    /\ lookupCall.fn = "_is_human_message"
    /\ lookupCall.match = Hit(None, None, None, None, Str("U1"), None)
    /\ ~lookupCall.result
    /\ botCache["U1"] = json_dumps([kind |-> "dict", is_bot |-> Bool(TRUE)])


(***************************************************************************)
(* C16: truncation                                                         *)
(***************************************************************************)

\* C16: truncation. When discovery yields more candidates than
\* settings.max_threads, the threads kept are exactly the first max_threads
\* candidates in discovery order, otherwise all of them; after truncation
\* the number of threads enriched and posted never exceeds max_threads.
C16_Truncation ==
    /\ [][(pc = "truncate") =>
              threads' = IF Len(threads) > settings.max_threads
                         THEN SubSeq(threads, 1, settings.max_threads)
                         ELSE threads]_vars
    /\ [](pc \in {"enrich", "post", "done"} =>
              /\ Len(threads) <= settings.max_threads
              /\ Len(enriched) <= settings.max_threads)


(***************************************************************************)
(* C17: malformed model output                                             *)
(***************************************************************************)

\* C17: malformed model output never fails the pipeline. Whatever text the
\* model returned, the placeholder check, the caching and the assembly of
\* what summarize made of it do not abort the run: the enrichment of a
\* thread raises only when the call of the model itself fails.
C17_MalformedOutputNeverFails ==
    [][(pc = "enrich" /\ pc' = "raised") => (error' = Err("model call failed", ""))]_vars


(***************************************************************************)
(* C18: build_thread_text                                                  *)
(***************************************************************************)

\* The user cache as message i of the call finds it.
RECURSIVE CacheAt(_)
CacheAt(i) ==
    IF i = 1 THEN lookupCall.before
    ELSE LET message == lookupCall.messages[i - 1]
         IN  IF "user" \in DOMAIN message
             THEN resolve_user_name(CacheAt(i - 1), message.user,
                                    lookupCall.lookups[i - 1]).ucache
             ELSE CacheAt(i - 1)

\* What resolve_user_name gives for the author of message i of the call.
ResolvedName(i) ==
    resolve_user_name(CacheAt(i), lookupCall.messages[i].user, lookupCall.lookups[i]).name

Authored == { i \in DOMAIN lookupCall.messages : "user" \in DOMAIN lookupCall.messages[i] }

\* C18: build_thread_text. The participants are in ascending order without
\* duplicates and are the names resolve_user_name gave for the messages that
\* carry a user; the transcript has one entry per message, in the order of
\* the messages, "Unknown: {text}" for a message without a user and
\* "{resolved name}: {text}" for the others.
C18_BuildThreadText ==
    (lookupCall.fn = "build_thread_text") =>
        /\ \A i, j \in DOMAIN lookupCall.participants :
               (i < j) => (NameRank(lookupCall.participants[i])
                               < NameRank(lookupCall.participants[j]))
        /\ { lookupCall.participants[i] : i \in DOMAIN lookupCall.participants }
               = { ResolvedName(i) : i \in Authored }
        /\ Len(lookupCall.lines) = Len(lookupCall.messages)
        /\ \A i \in DOMAIN lookupCall.messages :
               lookupCall.lines[i] =
                   << IF i \in Authored THEN ResolvedName(i) ELSE "Unknown", ":" >>
                       \o lookupCall.messages[i].text

\* A thread of three messages: the lookup of U1 failed for the first, the
\* second has no user, and the lookup gave the real name for the third; the
\* participants are Ann and U1, in that order.
C18_Witness ==
    /\ lookupCall.fn = "build_thread_text"
    /\ lookupCall.lines = << <<"U1", ":", "db", "is", "down">>,
                             <<"Unknown", ":", "restarted">>,
                             <<"Ann", ":", "fixed">> >>
    /\ lookupCall.participants = << "Ann", "U1" >>


(***************************************************************************)
(* C19: parse_permalink                                                    *)
(***************************************************************************)

\* The permalink has the shape /archives/{channel}/p{16 digits}.
HasFixedShape(permalink) ==
    /\ permalink.archives
    /\ IsChannelId(permalink.channel)
    /\ permalink.p
    /\ Len(permalink.digits) = 16

\* C19: parse_permalink. A permalink of the shape
\* /archives/{channel}/p{16 digits} parses to the channel and to the first
\* ten digits, a dot and the other six; any other input, a digit suffix that
\* is not 16 digits long included, gives no match, so that the run started
\* on it ends with "Invalid permalink format" and no thread is ever looked
\* up under a malformed timestamp.
C19_ParsePermalink ==
    (mode = "permalink") =>
        IF HasFixedShape(invocation.permalink)
        THEN /\ error # Err("Invalid permalink format", "")
             /\ \A i \in DOMAIN threads :
                    /\ threads[i].channel_id = invocation.permalink.channel
                    /\ threads[i].thread_ts =
                           Ts(SubSeq(invocation.permalink.digits, 1, 10),
                              SubSeq(invocation.permalink.digits, 11, 16))
        ELSE /\ pc = "raised"
             /\ error = Err("Invalid permalink format", "")
             /\ threads = <<>>
             /\ fetched = None


(***************************************************************************)
(* C20: malformed cached values                                            *)
(***************************************************************************)

\* The messages of the thread the loop is at that carry a user.
AuthorsAt(i) ==
    { threads[i].messages[m].user :
          m \in { n \in DOMAIN threads[i].messages : "user" \in DOMAIN threads[i].messages[n] } }

\* The step is one thread of the enrichment loop: the loop moves on or the
\* run ends.
EnrichStep == pc = "enrich" /\ (idx' # idx \/ pc' # pc)

\* C20: a malformed cached value is a miss, never an error. get_json gives
\* None for stored text that is not JSON. A thread whose thread-summary
\* entry is such text is summarized again, and the entry is overwritten with
\* what summarize returned; a user whose entry is such text is looked up
\* again, so that the entry is either left or replaced by the name users.info
\* gave; and the enrichment raises only what the model makes it raise.
C20_MalformedCacheIsMiss ==
    /\ [](\A k \in ThreadKeys : (cache[k] = Garbage) => (get_json(cache, k) = None))
    /\ [](\A u \in UserIds : (userCache[u] = Garbage) => (get_json(userCache, u) = None))
    /\ [][(EnrichStep /\ cache[threads[idx].thread_ts] = Garbage) =>
              /\ summarizeCalls' = summarizeCalls + 1
              /\ (pc' = "raised") =>
                     error' \in {Err("model call failed", ""), Err("AttributeError", "")}
              /\ (error' # Err("model call failed", "")) =>
                     /\ cache'[threads[idx].thread_ts].kind = "text"
                     /\ cache'[threads[idx].thread_ts].valid
              /\ (pc' # "raised") =>
                     /\ Len(enriched') = Len(enriched) + 1
                     /\ ~enriched'[Len(enriched')].hit
                     /\ cache'[threads[idx].thread_ts]
                            = json_dumps(enriched'[Len(enriched')].summary_blocks)]_vars
    /\ [][EnrichStep =>
              \A u \in UserIds :
                  (userCache[u] = Garbage) =>
                      \/ userCache'[u] = Garbage
                      \/ /\ u \in AuthorsAt(idx)
                         /\ userCache'[u] \in
                                { json_dumps([kind |-> "dict", name |-> n]) :
                                      n \in {"Ann", "ann"} }]_vars

\* The run ended well: the thread whose entry was malformed text was
\* summarized, its entry now holds the summary, and the entry of user U1,
\* malformed text at the start, holds the name users.info gave.
C20_Witness ==
    /\ pc = "done"
    /\ mode = "window"
    /\ summarizeCalls >= 1
    /\ \E i \in DOMAIN enriched :
           /\ enriched[i].thread_ts = TsA
           /\ ~enriched[i].hit
           /\ TsA \notin expired
           /\ cache[TsA] = json_dumps(enriched[i].summary_blocks)
    /\ userCache["U1"] = json_dumps([kind |-> "dict", name |-> "Ann"])


(***************************************************************************)
(* C21: what a cache hit leaves alone                                      *)
(***************************************************************************)

\* The thread-summary key holds a stored Summary Block Set.
HoldsBlockSet(k) ==
    /\ cache[k].kind = "text"
    /\ cache[k].valid
    /\ cache[k].value.kind = "list"

\* C21: a cache hit leaves the cache and the summarizer untouched. When the
\* thread-summary key of the thread holds a stored Summary Block Set, the
\* step of the loop does not call summarize, writes nothing to the cache and
\* uses the stored value as it is; when the key holds nothing, summarize is
\* called once and what it returned is stored under the key and used.
C21_CacheHitFrame ==
    [][EnrichStep =>
          LET k == threads[idx].thread_ts
          IN  /\ HoldsBlockSet(k) =>
                     /\ summarizeCalls' = summarizeCalls
                     /\ cache' = cache
                     /\ (pc' # "raised") =>
                            /\ enriched'[Len(enriched')].hit
                            /\ enriched'[Len(enriched')].summary_blocks = cache[k].value
              /\ (cache[k].kind = "absent") =>
                     /\ summarizeCalls' = summarizeCalls + 1
                     /\ (pc' # "raised") =>
                            /\ ~enriched'[Len(enriched')].hit
                            /\ cache'[k] = json_dumps(enriched'[Len(enriched')].summary_blocks)]_vars


(***************************************************************************)
(* C22: one candidate per thread                                           *)
(***************************************************************************)

\* The matches of the search are different messages.
DistinctMessages ==
    \A i, j \in DOMAIN matches : (matches[i].ts = matches[j].ts) => (i = j)

\* C22: per-thread deduplication within one run. In a window-mode run whose
\* search gave different messages, no two Thread Candidates have the same
\* channel and thread root timestamp, even when several of the matches (the
\* root and a reply) belong to one thread.
C22_OneCandidatePerThread ==
    (mode = "window" /\ pc \in {"discover", "truncate"} /\ DistinctMessages) =>
        \A i, j \in DOMAIN threads :
            (/\ threads[i].channel_id = threads[j].channel_id
             /\ threads[i].thread_ts = threads[j].thread_ts) => (i = j)


(***************************************************************************)
(* C23: completion of a run                                                *)
(***************************************************************************)

\* C23: run completion. No run ends in an error raised by the set-up of
\* run_pipeline itself: a run that raises does so in discovery, enrichment
\* or posting, or on the flags of main, and a run started by main with
\* compatible flags gets past the construction of its cache, gateway and
\* summarizer.
C23_RunGetsPastSetUp ==
    /\ (pc = "raised") => (error # SetUpError)
    /\ (/\ invocation.via = "main"
        /\ ~(invocation.flag_dry_run /\ invocation.flag_no_dry_run)
        /\ cacheConn # "none") => (mode = "window")

(***************************************************************************)
(* C24: one digest per run, in discovery order                             *)
(***************************************************************************)

\* The enriched threads are the discovered candidates, one for one and in
\* the order of discovery.
EnrichedAsDiscovered ==
    /\ Len(enriched) = Len(threads)
    /\ \A i \in 1..Len(threads) : enriched[i].thread_ts = threads[i].thread_ts

\* C24: a completed run has made its one post_blocks call once the summary
\* of every candidate had been obtained, and that call delivered exactly one
\* message; the block sequence handed to post_blocks is never empty, so the
\* call always reaches chat.postMessage; and the delivered digest holds the
\* contributions of the threads in the order in which they were discovered.
C24_OneDigestInDiscoveryOrder ==
    /\ [](/\ (pc = "done")
                 => /\ EnrichedAsDiscovered
                    /\ Len(posted) = 1
                    /\ posted[1] # <<>>
                    /\ posted[1] = (IF ExpectedDigest(enriched) = <<>>
                                    THEN << NoThreadsBlock >>
                                    ELSE ExpectedDigest(enriched))
                    /\ postAttempts = joinCalls + 1
          /\ Len(posted) <= 1)
    /\ [][/\ (pc = "post" /\ pc' # "post")
                 => /\ EnrichedAsDiscovered
                    /\ blocks' # <<>>
                    /\ postAttempts' > postAttempts
          /\ (posted' # posted \/ postAttempts' > postAttempts)
                 => (pc = "post" /\ posted = <<>> /\ postAttempts = 0)]_vars

\* C24's case: a completed run whose digest holds the summaries of two
\* different threads, the one discovered first in front.
C24_Witness ==
    /\ pc = "done"
    /\ Len(enriched) = 2
    /\ enriched[1].thread_ts # enriched[2].thread_ts
    /\ ~HasPlaceholderPhrase(enriched[1].summary_blocks)
    /\ ~HasPlaceholderPhrase(enriched[2].summary_blocks)
    /\ enriched[1].summary_blocks.items # <<>>
    /\ enriched[1].summary_blocks.items # enriched[2].summary_blocks.items
    /\ posted = << ExpectedDigest(enriched) >>
    /\ SubSeq(posted[1], 1, Len(enriched[1].summary_blocks.items))
           = enriched[1].summary_blocks.items

(***************************************************************************)
(* C25: a failed anchor search                                             *)
(***************************************************************************)

\* The caller's search for the anchor failed.
AnchorSearchFailed(p) == anchorFound[p].kind = "raised"

\* The caller's post was not delivered: its chat.postMessage failed, or the
\* join or the retry after not_in_channel failed.
AnchorPostFailed(p) ==
    /\ anchorCalls[p] # <<>>
    /\ anchorCalls[p][1].api = "chat.postMessage"
    /\ Delivered(anchorCalls[p]) = {}

\* The errors of a failed anchor post.
AnchorPostErrors ==
    { Raised(Err("Slack post failed", "")),
      Raised(Err("Slack post failed: Could not join channel", slack_channel_id)) }

\* C25: a failed search for the weekly anchor is not propagated. The call
\* goes on as a call whose search found no anchor does: it has no result
\* yet and posts nothing by the search, then posts a header-only anchor and
\* returns its timestamp. A call raises only when the post of the anchor,
\* its join or its retry failed, or when the response of a delivered post
\* carries no timestamp.
C25_SearchFailureIsSwallowed ==
    /\ [](\A p \in Callers :
             /\ (AnchorSearchFailed(p) /\ anchorPc[p] = "returned") =>
                    /\ Cardinality(Delivered(anchorCalls[p])) = 1
                    /\ \E i \in AnchorsPosted(AskedDate(p)) :
                           /\ slackMsgs[i].ts = anchorResult[p]
                           /\ slackMsgs[i].channel.id.val = slack_channel_id
                           /\ slackMsgs[i].blocks = AnchorBlocks(AskedDate(p))
             /\ (anchorPc[p] = "raised") =>
                    \/ /\ AnchorPostFailed(p)
                       /\ anchorResult[p] \in AnchorPostErrors
                    \/ /\ Cardinality(Delivered(anchorCalls[p])) = 1
                       /\ anchorResult[p]
                              = Raised(Err("Failed to get thread timestamp", "")))
    /\ [][\A p \in Callers :
             /\ (anchorFound'[p] # anchorFound[p] /\ AnchorSearchFailed(p)') =>
                    /\ anchorPc'[p] = "creating"
                    /\ anchorResult'[p] = None
                    /\ anchorCalls'[p] = <<>>
                    /\ slackMsgs' = slackMsgs
             /\ (anchorPc[p] # "raised" /\ anchorPc'[p] = "raised") =>
                    anchorPc[p] = "creating"]_vars

\* C25's case: the channel held the anchor of the week, the caller's search
\* failed, and the caller has posted a second anchor after joining the
\* channel and returned its timestamp.
C25_Witness ==
    \E p \in Callers :
        /\ AnchorSearchFailed(p)
        /\ anchorPc[p] = "returned"
        /\ searchMissed
        /\ Len(anchorCalls[p]) = 3
        /\ Cardinality(AnchorsPosted(AskedDate(p))) = 2
        /\ \E i \in AnchorsPosted(AskedDate(p)) : slackMsgs[i].ts = anchorResult[p]

====
